---- MODULE Spec2Model ----
(***************************************************************************)
(* HRFlow AI: the onboarding orchestrator (lib/invisible-onboarding), its  *)
(* HTTP route (POST /api/automation/onboard), the RAG chatbot              *)
(* (lib/hr-chatbot-rag) and its route (/api/chat/message), over the        *)
(* relational store of the Supabase schema.                                *)
(*                                                                         *)
(* An action is one await-to-await segment of the JavaScript code.  The    *)
(* store and the model provider are external: each call to them returns    *)
(* either a result or an error, chosen nondeterministically.  The store    *)
(* client (supabase-js) reports failures as {data, error} and never        *)
(* throws; the OpenAI client rejects.                                      *)
(*                                                                         *)
(* JavaScript null / undefined are modelled by the empty sequence << >>    *)
(* for object values, by "" for strings and by 0 for numbers (the code     *)
(* only tests these values for falsiness).                                 *)
(***************************************************************************)
EXTENDS Integers, Sequences, FiniteSets, TLC

\* ------------------------------------------------------------------------
\* Bounds of the model
\* ------------------------------------------------------------------------
MaxEmailLen == 5

\* ------------------------------------------------------------------------
\* Small helpers
\* ------------------------------------------------------------------------
RECURSIVE SeqsUpTo(_, _)
SeqsUpTo(S, n) ==
  IF n = 0 THEN {<< >>}
  ELSE LET shorter == SeqsUpTo(S, n - 1)
       IN  shorter \cup {Append(s, c) : s \in {t \in shorter : Len(t) = n - 1}, c \in S}

Range(s) == {s[i] : i \in 1..Len(s)}

\* Array.prototype.map over a sequence
MapSeq(s, F(_)) == [i \in 1..Len(s) |-> F(s[i])]

\* ------------------------------------------------------------------------
\* Dates.  A date string of the request is a key; Date parsing (new Date(s))
\* gives a calendar date or the Invalid Date.  A formatted date
\* (toISOString().split('T')[0]) is the record [y, m, d].
\* ------------------------------------------------------------------------
ParsedDates ==
  [ d \in {"2025-03-01", "2024-02-29", "2025-12-30"} |->
      CASE d = "2025-03-01" -> [y |-> 2025, m |-> 3,  d |-> 1]
        [] d = "2024-02-29" -> [y |-> 2024, m |-> 2,  d |-> 29]
        [] d = "2025-12-30" -> [y |-> 2025, m |-> 12, d |-> 30] ]

\* new Date(s) is a valid date
DateIsValid(s) == s \in DOMAIN ParsedDates

\* The DATE column of the store accepts every calendar date and the special
\* value 'infinity', which it returns unchanged.
StoreAcceptsDate(s) == DateIsValid(s) \/ s = "infinity"

IsLeap(y) == (y % 4 = 0 /\ y % 100 # 0) \/ y % 400 = 0

DaysInMonth(y, m) ==
  IF m = 2 THEN (IF IsLeap(y) THEN 29 ELSE 28)
  ELSE IF m \in {4, 6, 9, 11} THEN 30 ELSE 31

\* Date normalisation of setDate / setFullYear: a day past the end of the
\* month rolls over into the following months.
RECURSIVE NormalizeDate(_)
NormalizeDate(dt) ==
  IF dt.d <= DaysInMonth(dt.y, dt.m) THEN dt
  ELSE NormalizeDate([y |-> IF dt.m = 12 THEN dt.y + 1 ELSE dt.y,
                      m |-> IF dt.m = 12 THEN 1 ELSE dt.m + 1,
                      d |-> dt.d - DaysInMonth(dt.y, dt.m)])

\* date.setDate(date.getDate() + n)
AddDays(dt, n) == NormalizeDate([dt EXCEPT !.d = dt.d + n])

\* date.setFullYear(date.getFullYear() + n)
AddYears(dt, n) == NormalizeDate([dt EXCEPT !.y = dt.y + n])

\* Day 0 of the day numbers of the model
Epoch == [y |-> 2025, m |-> 1, d |-> 1]

RECURSIVE DaysBeforeMonth(_, _)
DaysBeforeMonth(y, m) ==
  IF m = 1 THEN 0 ELSE DaysBeforeMonth(y, m - 1) + DaysInMonth(y, m - 1)

RECURSIVE DaysBeforeYear(_)
DaysBeforeYear(y) ==
  IF y <= 2024 THEN 0
  ELSE DaysBeforeYear(y - 1) + (IF IsLeap(y - 1) THEN 366 ELSE 365)

\* A DATE as a day number (date - DATE '2025-01-01')
DayNumber(dt) ==
  (DaysBeforeYear(dt.y) + DaysBeforeMonth(dt.y, dt.m) + dt.d)
    - (DaysBeforeYear(Epoch.y) + DaysBeforeMonth(Epoch.y, Epoch.m) + Epoch.d)

\* The time zone of the server process: UTC, or a zone with summer time.
TimeZones == {"UTC", "Europe/London"}

\* getDay(): 0 is Sunday (2025-01-01 is a Wednesday)
Weekday(dt) == (DayNumber(dt) + 3) % 7

\* The last Sunday of a month of 31 days
LastSunday(y, m) == [y |-> y, m |-> m, d |-> 31 - Weekday([y |-> y, m |-> m, d |-> 31])]

\* The zone is one hour ahead of UTC at the start of the day dt: in
\* Europe/London after the last Sunday of March up to the last Sunday of
\* October (the clocks change at 01:00 UTC of these Sundays).
SummerTime(tz, dt) ==
  /\ tz = "Europe/London"
  /\ DayNumber(LastSunday(dt.y, 3)) < DayNumber(dt)
  /\ DayNumber(dt) <= DayNumber(LastSunday(dt.y, 10))

PreviousDay(dt) ==
  IF dt.d > 1 THEN [dt EXCEPT !.d = dt.d - 1]
  ELSE IF dt.m > 1 THEN [y |-> dt.y, m |-> dt.m - 1, d |-> DaysInMonth(dt.y, dt.m - 1)]
  ELSE [y |-> dt.y - 1, m |-> 12, d |-> 31]

\* toISOString().split('T')[0] of the instant that is hour o'clock of the
\* day dt in the zone: the UTC date, which is the day before for a local
\* midnight under summer time.
ISODateOfLocal(tz, dt, hour) ==
  IF SummerTime(tz, dt) /\ hour = 0 THEN PreviousDay(dt) ELSE dt

\* getHours() of new Date('YYYY-MM-DD'), which is 00:00 UTC of that day
LocalHourOf(tz, dt) == IF SummerTime(tz, dt) THEN 1 ELSE 0

\* d = new Date(s); d.setDate(d.getDate() + n); d.toISOString().split('T')[0]
\* The setter works on the local date and keeps the local time of day.
SetDatePlus(tz, dt, n) == ISODateOfLocal(tz, AddDays(dt, n), LocalHourOf(tz, dt))

\* d = new Date(s); d.setFullYear(d.getFullYear() + n); d.toISOString()...
SetFullYearPlus(tz, dt, n) == ISODateOfLocal(tz, AddYears(dt, n), LocalHourOf(tz, dt))

\* ------------------------------------------------------------------------
\* Request bodies of POST /api/automation/onboard
\* ------------------------------------------------------------------------
requiredFields ==
  <<"fullName", "email", "role", "department", "country", "salaryUSD", "startDate">>

validCountries == <<"SG", "UK", "US", "IN", "UAE">>

\* Characters an email of the model is written with: a letter, the at-sign,
\* the dot and a blank.
EmailChars == {"a", "@", ".", " "}

EmailStrings == SeqsUpTo(EmailChars, MaxEmailLen)

GoodEmail == <<"a", "@", "a", ".", "a">>
BadEmail  == <<"a", "@", "a">>

\* [^\s@]
NotSpaceOrAt(c) == c \notin {" ", "@"}

AllNotSpaceOrAt(s, from, to) ==
  \A k \in from..to : NotSpaceOrAt(s[k])

\* Mutant of emailRegexTest: the regular expression without its dot,
\* /^[^\s@]+@[^\s@]+$/
emailRegexTest_NoDot(s) ==
  \E i \in 1..Len(s) :
    /\ s[i] = "@"
    /\ 1 < i /\ i < Len(s)
    /\ AllNotSpaceOrAt(s, 1, i - 1)
    /\ AllNotSpaceOrAt(s, i + 1, Len(s))

\* emailRegex.test(s) for /^[^\s@]+@[^\s@]+\.[^\s@]+$/ : some at-sign at i
\* and some dot at j split s into three non-empty runs of [^\s@].
emailRegexTest(s) ==
  \E i \in 1..Len(s) : \E j \in 1..Len(s) :
    /\ s[i] = "@"
    /\ s[j] = "."
    /\ 1 < i /\ i + 1 < j /\ j < Len(s)
    /\ AllNotSpaceOrAt(s, 1, i - 1)
    /\ AllNotSpaceOrAt(s, i + 1, j - 1)
    /\ AllNotSpaceOrAt(s, j + 1, Len(s))

BaseBody ==
  [ fullName     |-> "Sarah Chen",
    email        |-> GoodEmail,
    role         |-> "Software Engineer",
    department   |-> "Engineering",
    country      |-> "SG",
    salaryUSD    |-> 120000,
    startDate    |-> "2025-03-01",
    equityShares |-> 0 ]

\* The value of a field that is absent from the body ('' / 0 / undefined)
FalsyValue(f) ==
  IF f \in {"salaryUSD", "equityShares"} THEN 0 ELSE IF f = "email" THEN << >> ELSE ""

\* !candidateData[field]
FieldIsFalsy(body, f) == body[f] = FalsyValue(f)

\* The body b with the fields of S left out
Without(b, S) ==
  [f \in DOMAIN b |-> IF f \in S THEN FalsyValue(f) ELSE b[f]]

StartDates == {"2025-03-01", "2024-02-29", "2025-12-30", "infinity"}

\* The request bodies the model sends: every subset of the required fields
\* left out (with a supported and an unsupported country), every email string,
\* and every combination of country, equity grant and start date.
BodiesMissing ==
  { Without([BaseBody EXCEPT !.country = c], S) :
      c \in {"SG", "FR"}, S \in SUBSET Range(requiredFields) }

BodiesEmail == { [BaseBody EXCEPT !.email = e] : e \in EmailStrings }

BodiesRun ==
  { [BaseBody EXCEPT !.country = c, !.equityShares = q, !.startDate = d] :
      c \in {"SG", "US", "UAE", "FR", "sg"}, q \in {0, 15000}, d \in StartDates }

Bodies == BodiesMissing \cup BodiesEmail \cup BodiesRun

\* route.js: requiredFields.filter(field => !candidateData[field])
missingFields(body) == SelectSeq(requiredFields, LAMBDA f : FieldIsFalsy(body, f))

\* The 400 response of the route's validation, << >> when the body is valid.
\* Mutant of ValidationResponse: the 400 for an unsupported country does not
\* list the supported ones.
ValidationResponse_NoCountryList(body) ==
  IF Len(missingFields(body)) > 0
    THEN << [status |-> 400,
             body   |-> [error |-> "Missing required fields",
                         missing |-> missingFields(body)]] >>
  ELSE IF ~ emailRegexTest(body.email)
    THEN << [status |-> 400, body |-> [error |-> "Invalid email format"]] >>
  ELSE IF body.country \notin Range(validCountries)
    THEN << [status |-> 400, body |-> [error |-> "Invalid country"]] >>
  ELSE << >>

\* The response of the validation of POST, if it rejects the body
ValidationResponse(body) ==
  IF Len(missingFields(body)) > 0
    THEN << [status |-> 400,
             body   |-> [error |-> "Missing required fields",
                         missing |-> missingFields(body)]] >>
  ELSE IF ~ emailRegexTest(body.email)
    THEN << [status |-> 400, body |-> [error |-> "Invalid email format"]] >>
  ELSE IF body.country \notin Range(validCountries)
    THEN << [status |-> 400,
             body   |-> [error |-> "Invalid country",
                         valid_countries |-> validCountries]] >>
  ELSE << >>

\* ------------------------------------------------------------------------
\* State
\* ------------------------------------------------------------------------
VARIABLES
  db,    \* the relational store: one sequence of rows per table
  run,   \* the onboarding requests: run[r] is the state of request r
  chat,  \* the chat request being served (/api/chat/message)
  today, \* the current date, as a day number
  stats, \* the dashboard request being served (/api/stats)
  job    \* the run of the batch embedding job (generate-embeddings.js)

vars == <<db, run, chat, today, stats, job>>

\* The onboarding requests of the model.  Spec serves request 1.
RunIds == {1, 2}

EmptyDb ==
  [ employees           |-> << >>,
    generated_contracts |-> << >>,
    compliance_items    |-> << >>,
    automation_logs     |-> << >>,
    chat_messages       |-> << >>,
    policies            |-> << >> ]

\* An employee that was onboarded before the model starts.
SeedEmployee ==
  [ id |-> 1, email |-> <<"a", "@", ".", ".", "a">>, full_name |-> "Seed Employee",
    first_name |-> "Seed", last_name |-> "Employee",
    role |-> "HR Manager", country |-> "UK", department |-> "People",
    equity_shares |-> 0, start_date |-> "2024-02-29",
    leave_balance_days |-> 0, last_leave_date |-> << >>, manager_id |-> << >> ]

SeedDb == [EmptyDb EXCEPT !.employees = << SeedEmployee >>]

\* uuid_generate_v4(): an id no row of the table has (rows are never deleted)
NewId(table) == Len(table) + 1

IdleRun ==
  [ pc                  |-> "idle",
    candidateData       |-> Without(BaseBody, DOMAIN BaseBody),
    optionsArg          |-> [sendEmails |-> << >>, createCalendarEvents |-> << >>,
                             provisionAccess |-> << >>],  \* the options as passed
    options             |-> [sendEmails |-> FALSE, createCalendarEvents |-> FALSE,
                             provisionAccess |-> FALSE],
    tz                  |-> "UTC",   \* the time zone of the serving process
    dbAtStart           |-> EmptyDb, \* the store when the request arrived
    promises            |-> << >>,   \* stage 1: "pending" / "fulfilled" / "null"
    contracts           |-> << >>,
    successfulContracts |-> << >>,
    timeline            |-> << >>,
    errors              |-> << >>,
    employee            |-> << >>,
    saveIndex           |-> 0,
    savedContracts      |-> << >>,
    complianceItems     |-> << >>,
    savedCompliance     |-> << >>,
    emailResult         |-> << >>,
    calendarEvents      |-> << >>,
    accessProvisions    |-> << >>,
    thrown              |-> "",
    io                  |-> << >>,   \* the store calls that returned, in order
    result              |-> << >>,
    response            |-> << >> ]

\* The chat request state between two requests
IdleChat ==
  [ pc                |-> "idle",
    served            |-> 0,       \* requests answered so far
    method            |-> "",
    employeeId        |-> 0,
    question          |-> "",
    messageId         |-> 0,
    helpful           |-> "",
    comment           |-> "",
    limitParam        |-> "",
    limit             |-> 0,
    employee          |-> << >>,
    questionEmbedding |-> << >>,
    relevantPolicies  |-> << >>,
    answer            |-> "",
    trace             |-> << >>,
    io                |-> << >>,   \* the external calls that returned, in order
    result            |-> << >>,
    response          |-> << >> ]

\* The dashboard request: the three counts as they returned
IdleStats ==
  [ pc            |-> "idle",
    configured    |-> TRUE,     \* SUPABASE_URL and SUPABASE_ANON_KEY are set
    employeeCount |-> << >>,
    contractCount |-> << >>,
    chatCount     |-> << >>,
    io            |-> << >>,
    response      |-> << >> ]

\* The locals of generateAllEmbeddings
IdleJob ==
  [ pc           |-> "idle",
    policies     |-> << >>,    \* the rows the job fetched
    i            |-> 0,        \* the loop index, from 1
    embedding    |-> << >>,
    successCount |-> 0,
    errorCount   |-> 0,
    log          |-> << >> ]   \* the provider calls, store calls and sleeps, in order

Init ==
  /\ db \in {EmptyDb, SeedDb}
  /\ run = [r \in RunIds |-> IdleRun]
  /\ chat = IdleChat
  /\ today = 0
  /\ stats = IdleStats
  /\ job = IdleJob

\* ------------------------------------------------------------------------
\* POST /api/automation/onboard and executeInvisibleOnboarding
\* ------------------------------------------------------------------------

\* Mutant of contractTypes: the equity agreement is requested for every hire.
contractTypes_AlwaysEquity(candidateData) ==
  <<"employment", "nda", "equity">>

\* const contractTypes = ['employment', 'nda']; + 'equity' if equityShares > 0
contractTypes(candidateData) ==
  IF candidateData.equityShares # 0 /\ candidateData.equityShares > 0
    THEN <<"employment", "nda", "equity">>
    ELSE <<"employment", "nda">>

\* The options the route passes: every flag is NODE_ENV === 'production'.
RouteOptions(production) ==
  [ sendEmails           |-> << production >>,
    createCalendarEvents |-> << production >>,
    provisionAccess      |-> << production >> ]

\* Mutant of FlagOrDefault: a flag that is not passed is on.
FlagOrDefault_Live(flag) == IF flag = << >> THEN TRUE ELSE flag[1]

\* const { sendEmails = false, ... } = options: a flag that is not passed
\* is off.
FlagOrDefault(flag) == IF flag = << >> THEN FALSE ELSE flag[1]

\* The destructuring of the options at the head of executeInvisibleOnboarding
OptionsOf(optionsArg) ==
  [ sendEmails           |-> FlagOrDefault(optionsArg.sendEmails),
    createCalendarEvents |-> FlagOrDefault(optionsArg.createCalendarEvents),
    provisionAccess      |-> FlagOrDefault(optionsArg.provisionAccess) ]

\* The route handler up to the first await of the orchestrator: validation,
\* then the generateContract calls of stage 1 are started.
OnboardPOST(r) ==
  /\ run[r].pc = "idle"
  /\ UNCHANGED <<chat, today, stats, job>>
  /\ \E body \in Bodies, production \in BOOLEAN, tz \in TimeZones :
       LET st == [run[r] EXCEPT !.candidateData = body,
                                !.tz = tz,
                                !.optionsArg = RouteOptions(production),
                                !.options = OptionsOf(RouteOptions(production)),
                                !.dbAtStart = db]
       IN run' = [run EXCEPT ![r] =
            IF ValidationResponse(body) # << >>
              THEN [st EXCEPT !.pc = "done", !.response = ValidationResponse(body)]
              ELSE [st EXCEPT !.pc = "await_contracts",
                              !.promises = [i \in 1..Len(contractTypes(body)) |-> "pending"]]]
  /\ UNCHANGED db

\* One generateContract call settles.  A rejection runs the .catch callback:
\* it records the error and turns the promise's value into null.
ContractSettles(r, i, ok) ==
  /\ run[r].pc = "await_contracts"
  /\ UNCHANGED <<chat, today, stats, job>>
  /\ i \in 1..Len(run[r].promises)
  /\ run[r].promises[i] = "pending"
  /\ LET type == contractTypes(run[r].candidateData)[i]
         st   == run[r]
     IN run' = [run EXCEPT ![r] =
          IF ok
            THEN [st EXCEPT !.promises[i] = "fulfilled"]
            ELSE [st EXCEPT !.promises[i] = "null",
                            !.errors = Append(@, [step  |-> "contract_generation",
                                                  type  |-> type,
                                                  error |-> "generation failed"])]]
  /\ UNCHANGED db

\* Mutant of ContractsJoined: a join that resumes as soon as one promise has
\* settled (Promise.race / an all-or-nothing join cut short by a rejection).
ContractsJoined_FirstSettled(r) ==
  /\ run[r].pc = "await_contracts"
  /\ UNCHANGED <<chat, today, stats, job>>
  /\ \E i \in 1..Len(run[r].promises) : run[r].promises[i] # "pending"
  /\ LET types     == contractTypes(run[r].candidateData)
         contracts == [i \in 1..Len(types) |->
                         IF run[r].promises[i] = "fulfilled"
                           THEN << [contractType |-> types[i]] >>
                           ELSE << >>]
         nonNull   == SelectSeq(contracts, LAMBDA c : c # << >>)
         successful == MapSeq(nonNull, LAMBDA c : c[1])
     IN run' = [run EXCEPT ![r] =
          [@ EXCEPT !.pc = "await_employee_insert",
                    !.contracts = contracts,
                    !.successfulContracts = successful,
                    !.timeline = Append(@, [step |-> "contracts_generated",
                                            contracts_count |-> Len(successful)])]]
  /\ UNCHANGED db

\* await Promise.all(contractPromises) resumes once every promise has settled;
\* the nulls are filtered out, the stage is recorded and the employee insert
\* is issued.
ContractsJoined(r) ==
  /\ run[r].pc = "await_contracts"
  /\ UNCHANGED <<chat, today, stats, job>>
  /\ \A i \in 1..Len(run[r].promises) : run[r].promises[i] # "pending"
  /\ LET types     == contractTypes(run[r].candidateData)
         contracts == [i \in 1..Len(types) |->
                         IF run[r].promises[i] = "fulfilled"
                           THEN << [contractType |-> types[i]] >>
                           ELSE << >>]
         nonNull   == SelectSeq(contracts, LAMBDA c : c # << >>)
         successful == MapSeq(nonNull, LAMBDA c : c[1])
     IN run' = [run EXCEPT ![r] =
          [@ EXCEPT !.pc = "await_employee_insert",
                    !.contracts = contracts,
                    !.successfulContracts = successful,
                    !.timeline = Append(@, [step |-> "contracts_generated",
                                            contracts_count |-> Len(successful)])]]
  /\ UNCHANGED db

\* fullName.split(' ')[0] and fullName.split(' ').slice(1).join(' ')
firstNameOf(fullName) == IF fullName = "Sarah Chen" THEN "Sarah" ELSE fullName
lastNameOf(fullName)  == IF fullName = "Sarah Chen" THEN "Chen" ELSE ""

\* The row of the employee insert (stage 2) as the store returns it.
EmployeeRow(candidateData, id) ==
  [ id            |-> id,
    email         |-> candidateData.email,
    full_name     |-> candidateData.fullName,
    first_name    |-> firstNameOf(candidateData.fullName),
    last_name     |-> lastNameOf(candidateData.fullName),
    role          |-> candidateData.role,
    country       |-> candidateData.country,
    department    |-> candidateData.department,
    equity_shares |-> candidateData.equityShares,
    start_date    |-> candidateData.startDate,
    leave_balance_days |-> 0,       \* DEFAULT 0
    last_leave_date    |-> << >>,   \* NULL
    manager_id         |-> << >> ]  \* candidateData.managerId || null

\* The constraints of the employees table: email UNIQUE, start_date a DATE.
EmployeeInsertAllowed(table, row) ==
  /\ \A i \in 1..Len(table) : table[i].email # row.email
  /\ StoreAcceptsDate(row.start_date)

\* An entry of the log of store calls: an insert into a table returned, having
\* stored the rows with the given ids (none when it failed).
StoreCall(table, ok, ids) == [op |-> "insert", table |-> table, ok |-> ok, ids |-> ids]

\* The outer catch of executeInvisibleOnboarding is entered with message msg.
Throw(st, msg) == [st EXCEPT !.pc = "catch", !.thrown = msg]

\* Mutant of EmployeeInsertReturns: the error of the insert is recorded but not
\* thrown, and the later stages run with an employee that has no id.
EmployeeInsertReturns_NonFatal(r, ok) ==
  /\ run[r].pc = "await_employee_insert"
  /\ UNCHANGED <<chat, today, stats, job>>
  /\ ok => EmployeeInsertAllowed(db.employees, EmployeeRow(run[r].candidateData, 0))
  /\ LET employee == EmployeeRow(run[r].candidateData,
                                 IF ok THEN NewId(db.employees) ELSE 0)
     IN /\ db' = IF ok THEN [db EXCEPT !.employees = Append(@, employee)] ELSE db
        /\ run' = [run EXCEPT ![r] =
             [@ EXCEPT !.pc = "save_contracts",
                       !.employee = << employee >>,
                       !.saveIndex = 1,
                       !.io = Append(@, StoreCall("employees", ok,
                                                  IF ok THEN {employee.id} ELSE {})),
                       !.errors = IF ok THEN @
                                  ELSE Append(@, [step  |-> "employee_creation",
                                                  error |-> "insert failed"]),
                       !.timeline = Append(@, [step |-> "employee_created",
                                               employee_id |-> employee.id])]]

\* Stage 2: the employee insert returns.  An error is fatal: it is recorded
\* and thrown to the outer catch.
EmployeeInsertReturns(r, ok) ==
  /\ run[r].pc = "await_employee_insert"
  /\ UNCHANGED <<chat, today, stats, job>>
  /\ ok => EmployeeInsertAllowed(db.employees, EmployeeRow(run[r].candidateData, 0))
  /\ IF ok
       THEN LET employee == EmployeeRow(run[r].candidateData, NewId(db.employees))
            IN /\ db' = [db EXCEPT !.employees = Append(@, employee)]
               /\ run' = [run EXCEPT ![r] =
                    [@ EXCEPT !.pc = "save_contracts",
                              !.employee = << employee >>,
                              !.saveIndex = 1,
                              !.io = Append(@, StoreCall("employees", TRUE, {employee.id})),
                              !.timeline = Append(@, [step |-> "employee_created",
                                                      employee_id |-> employee.id])]]
       ELSE /\ db' = db
            /\ run' = [run EXCEPT ![r] =
                 Throw([@ EXCEPT !.io = Append(@, StoreCall("employees", FALSE, {})),
                                 !.errors = Append(@, [step  |-> "employee_creation",
                                                       error |-> "insert failed"])],
                       "Failed to create employee: insert failed")]

\* Mutant of ContractSaveReturns: the contract is linked to the employee that
\* was stored last (a value shared by the calls) instead of the call's own.
ContractSaveReturns_LatestEmployee(r, ok) ==
  /\ run[r].pc = "save_contracts"
  /\ UNCHANGED <<chat, today, stats, job>>
  /\ run[r].saveIndex <= Len(run[r].successfulContracts)
  /\ LET contract == run[r].successfulContracts[run[r].saveIndex]
         row == [ id            |-> NewId(db.generated_contracts),
                  employee_id   |-> db.employees[Len(db.employees)].id,
                  contract_type |-> contract.contractType,
                  status        |-> "pending_approval" ]
         call == StoreCall("generated_contracts", ok, IF ok THEN {row.id} ELSE {})
     IN IF ok
          THEN /\ db' = [db EXCEPT !.generated_contracts = Append(@, row)]
               /\ run' = [run EXCEPT ![r] =
                    [@ EXCEPT !.savedContracts = Append(@, row),
                              !.saveIndex = @ + 1,
                              !.io = Append(@, call)]]
          ELSE /\ db' = db
               /\ run' = [run EXCEPT ![r] =
                    [@ EXCEPT !.errors = Append(@, [step  |-> "contract_save",
                                                    type  |-> contract.contractType,
                                                    error |-> "insert failed"]),
                              !.saveIndex = @ + 1,
                              !.io = Append(@, call)]]

\* Mutant of ContractSaveReturns: the loop is left at the first refused save.
ContractSaveReturns_StopsAtFailure(r, ok) ==
  /\ run[r].pc = "save_contracts"
  /\ UNCHANGED <<chat, today, stats, job>>
  /\ run[r].saveIndex <= Len(run[r].successfulContracts)
  /\ LET contract == run[r].successfulContracts[run[r].saveIndex]
         row == [ id            |-> NewId(db.generated_contracts),
                  employee_id   |-> run[r].employee[1].id,
                  contract_type |-> contract.contractType,
                  status        |-> "pending_approval" ]
         call == StoreCall("generated_contracts", ok, IF ok THEN {row.id} ELSE {})
     IN IF ok
          THEN /\ db' = [db EXCEPT !.generated_contracts = Append(@, row)]
               /\ run' = [run EXCEPT ![r] =
                    [@ EXCEPT !.savedContracts = Append(@, row),
                              !.saveIndex = @ + 1,
                              !.io = Append(@, call)]]
          ELSE /\ db' = db
               /\ run' = [run EXCEPT ![r] =
                    [@ EXCEPT !.errors = Append(@, [step  |-> "contract_save",
                                                    type  |-> contract.contractType,
                                                    error |-> "insert failed"]),
                              !.saveIndex = Len(run[r].successfulContracts) + 1,
                              !.io = Append(@, call)]]

\* Stage 3, one turn of the loop over successfulContracts: the insert of one
\* generated contract is issued and returns.
ContractSaveReturns(r, ok) ==
  /\ run[r].pc = "save_contracts"
  /\ UNCHANGED <<chat, today, stats, job>>
  /\ run[r].saveIndex <= Len(run[r].successfulContracts)
  /\ LET contract == run[r].successfulContracts[run[r].saveIndex]
         row == [ id            |-> NewId(db.generated_contracts),
                  employee_id   |-> run[r].employee[1].id,
                  contract_type |-> contract.contractType,
                  status        |-> "pending_approval" ]
         call == StoreCall("generated_contracts", ok, IF ok THEN {row.id} ELSE {})
     IN IF ok
          THEN /\ db' = [db EXCEPT !.generated_contracts = Append(@, row)]
               /\ run' = [run EXCEPT ![r] =
                    [@ EXCEPT !.savedContracts = Append(@, row),
                              !.saveIndex = @ + 1,
                              !.io = Append(@, call)]]
          ELSE /\ db' = db
               /\ run' = [run EXCEPT ![r] =
                    [@ EXCEPT !.errors = Append(@, [step  |-> "contract_save",
                                                    type  |-> contract.contractType,
                                                    error |-> "insert failed"]),
                              !.saveIndex = @ + 1,
                              !.io = Append(@, call)]]

\* generateComplianceItems(employee).  toISOString() of an Invalid Date throws
\* a RangeError.
trainings == <<"Information Security", "GDPR Compliance", "Code of Conduct", "Safety Training">>

equipment == <<"MacBook Pro 16in", "External Monitor">>

generateComplianceItemsThrows(employee) == ~ DateIsValid(employee.start_date)

generateComplianceItems(employee, tz) ==
  LET start == ParsedDates[employee.start_date]
      trainingItems ==
        MapSeq(trainings, LAMBDA t :
          [ employee_id |-> employee.id,
            item_type   |-> "training_certification",
            item_name   |-> t,
            expiry_date |-> << SetDatePlus(tz, start, 30) >>,
            status      |-> "active" ])
      permitItems ==
        IF employee.country \in {"UAE", "US"}
          THEN << [ employee_id |-> employee.id,
                    item_type   |-> "work_permit",
                    item_name   |-> << employee.country, "Work Permit" >>,
                    expiry_date |-> << SetFullYearPlus(tz, start, 2) >>,
                    status      |-> "active" ] >>
          ELSE << >>
      equipmentItems ==
        MapSeq(equipment, LAMBDA e :
          [ employee_id |-> employee.id,
            item_type   |-> "equipment_loan",
            item_name   |-> e,
            expiry_date |-> << >>,
            status      |-> "active" ])
  IN trainingItems \o permitItems \o equipmentItems

\* End of stage 3 and start of stage 4: the save stage is recorded, the
\* checklist is derived and its bulk insert is issued.
ComplianceDerived(r) ==
  /\ run[r].pc = "save_contracts"
  /\ UNCHANGED <<chat, today, stats, job>>
  /\ run[r].saveIndex > Len(run[r].successfulContracts)
  /\ LET st == [run[r] EXCEPT !.timeline =
                   Append(@, [step |-> "contracts_saved",
                              saved_count |-> Len(run[r].savedContracts)])]
     IN run' = [run EXCEPT ![r] =
          IF generateComplianceItemsThrows(st.employee[1])
            THEN Throw(st, "Invalid time value")
            ELSE [st EXCEPT !.pc = "await_compliance_insert",
                            !.complianceItems = generateComplianceItems(st.employee[1], st.tz)]]
  /\ UNCHANGED db

\* Mutant of ComplianceInsertReturns: the stage is recorded in the timeline
\* only when the insert succeeded.
ComplianceInsertReturns_Unrecorded(r, ok) ==
  /\ run[r].pc = "await_compliance_insert"
  /\ UNCHANGED <<chat, today, stats, job>>
  /\ LET items == run[r].complianceItems
         first == Len(db.compliance_items)
         rows  == [i \in 1..Len(items) |->
                     [ id          |-> first + i,
                       employee_id |-> items[i].employee_id,
                       item_type   |-> items[i].item_type,
                       item_name   |-> items[i].item_name,
                       expiry_date |-> items[i].expiry_date,
                       status      |-> items[i].status ]]
         saved == IF ok THEN rows ELSE << >>
     IN /\ db' = [db EXCEPT !.compliance_items = @ \o saved]
        /\ run' = [run EXCEPT ![r] =
             [@ EXCEPT !.pc = "send_email",
                       !.savedCompliance = saved,
                       !.io = Append(@, StoreCall("compliance_items", ok,
                                                   {saved[i].id : i \in 1..Len(saved)})),
                       !.errors = IF ok THEN @
                                  ELSE Append(@, [step  |-> "compliance_init",
                                                  error |-> "insert failed"]),
                       !.timeline = IF ok
                                      THEN Append(@, [step |-> "compliance_initialized",
                                                      items_count |-> Len(saved)])
                                      ELSE @]]

\* Stage 4: the bulk insert of the checklist returns; an error is recorded and
\* is not fatal.
ComplianceInsertReturns(r, ok) ==
  /\ run[r].pc = "await_compliance_insert"
  /\ UNCHANGED <<chat, today, stats, job>>
  /\ LET items == run[r].complianceItems
         first == Len(db.compliance_items)
         rows  == [i \in 1..Len(items) |->
                     [ id          |-> first + i,
                       employee_id |-> items[i].employee_id,
                       item_type   |-> items[i].item_type,
                       item_name   |-> items[i].item_name,
                       expiry_date |-> items[i].expiry_date,
                       status      |-> items[i].status ]]
         saved == IF ok THEN rows ELSE << >>
     IN /\ db' = [db EXCEPT !.compliance_items = @ \o saved]
        /\ run' = [run EXCEPT ![r] =
             [@ EXCEPT !.pc = "send_email",
                       !.savedCompliance = saved,
                       !.io = Append(@, StoreCall("compliance_items", ok,
                                                   {saved[i].id : i \in 1..Len(saved)})),
                       !.errors = IF ok THEN @
                                  ELSE Append(@, [step  |-> "compliance_init",
                                                  error |-> "insert failed"]),
                       !.timeline = Append(@, [step |-> "compliance_initialized",
                                               items_count |-> Len(saved)])]]

\* sendWelcomeEmail(employee, contracts, {simulate})
sendWelcomeEmail(employee, contracts, simulate) ==
  [ to                 |-> employee.email,
    contracts_attached |-> Len(contracts),
    simulated          |-> simulate ]

\* Stage 5
WelcomeEmailSent(r) ==
  /\ run[r].pc = "send_email"
  /\ UNCHANGED <<chat, today, stats, job>>
  /\ run' = [run EXCEPT ![r] =
       [@ EXCEPT !.pc = "create_calendar",
                 !.emailResult = << sendWelcomeEmail(run[r].employee[1], run[r].contracts,
                                                      ~ run[r].options.sendEmails) >>,
                 !.timeline = Append(@, [step |-> "welcome_email_sent",
                                         simulated |-> ~ run[r].options.sendEmails,
                                         recipient |-> run[r].employee[1].email])]]
  /\ UNCHANGED db

\* createOnboardingCalendar(employee, {simulate}); startDate.toISOString()
\* throws on an Invalid Date.
createOnboardingCalendarThrows(employee) == ~ DateIsValid(employee.start_date)

createOnboardingCalendar(employee) ==
  LET startDate == ParsedDates[employee.start_date]
  IN << [title |-> "Welcome & Orientation",    date |-> startDate],
        [title |-> "IT Setup & System Access", date |-> startDate],
        [title |-> "Meet Your Manager",        date |-> startDate],
        [title |-> "Team Introduction",        date |-> AddDays(startDate, 1)],
        [title |-> "First Week Check-in",      date |-> AddDays(startDate, 4)] >>

\* Stage 6
CalendarCreated(r) ==
  /\ run[r].pc = "create_calendar"
  /\ UNCHANGED <<chat, today, stats, job>>
  /\ run' = [run EXCEPT ![r] =
       IF createOnboardingCalendarThrows(run[r].employee[1])
         THEN Throw(@, "Invalid time value")
         ELSE LET events == createOnboardingCalendar(run[r].employee[1])
              IN [@ EXCEPT !.pc = "provision_access",
                           !.calendarEvents = events,
                           !.timeline = Append(@,
                              [step |-> "calendar_events_created",
                               simulated |-> ~ run[r].options.createCalendarEvents,
                               events_count |-> Len(events)])]]
  /\ UNCHANGED db

\* provisionSystemAccess(employee, {simulate})
provisionSystemAccess(employee) ==
  << [system |-> "Email",     account |-> employee.email, status |-> "pending"],
     [system |-> "Slack",     account |-> <<"@", employee.first_name>>, status |-> "pending"],
     [system |-> "GitHub",    account |-> <<employee.first_name, "-", employee.last_name>>,
      status |-> "pending"],
     [system |-> "HR Portal", account |-> employee.email, status |-> "pending"],
     [system |-> "Jira",      account |-> employee.email, status |-> "pending"] >>

\* Stage 7, up to the audit insert of step 8 being issued
AccessProvisioned(r) ==
  /\ run[r].pc = "provision_access"
  /\ UNCHANGED <<chat, today, stats, job>>
  /\ LET provisions == provisionSystemAccess(run[r].employee[1])
     IN run' = [run EXCEPT ![r] =
          [@ EXCEPT !.pc = "await_audit_insert",
                    !.accessProvisions = provisions,
                    !.timeline = Append(@, [step |-> "system_access_provisioned",
                                            simulated |-> ~ run[r].options.provisionAccess,
                                            provisions |-> provisions])]]
  /\ UNCHANGED db

\* The summary executeInvisibleOnboarding returns on the success path
Summary(st) ==
  [ success    |-> TRUE,
    employee   |-> [ id |-> st.employee[1].id, name |-> st.employee[1].full_name,
                     email |-> st.employee[1].email, role |-> st.employee[1].role,
                     country |-> st.employee[1].country,
                     start_date |-> st.employee[1].start_date ],
    automation |-> [ steps_completed |-> Len(st.timeline), timeline |-> st.timeline ],
    deliverables |->
      [ contracts        |-> MapSeq(st.successfulContracts,
                                    LAMBDA c : [type |-> c.contractType]),
        employee_record  |-> st.employee[1],
        compliance_items |-> st.savedCompliance,
        calendar_events  |-> st.calendarEvents,
        system_access    |-> st.accessProvisions ],
    errors     |-> st.errors ]

\* Mutant of AuditInsertReturns: the audit entry of the success path is
\* marked success=true whatever errors holds.
AuditInsertReturns_AlwaysSuccess(r, ok) ==
  /\ run[r].pc = "await_audit_insert"
  /\ UNCHANGED <<chat, today, stats, job>>
  /\ LET row == [ id            |-> NewId(db.automation_logs),
                  trigger_event |-> "new_hire_onboarding",
                  employee_id   |-> << run[r].employee[1].id >>,
                  actions_taken |-> run[r].timeline,
                  success       |-> TRUE,
                  error_message |-> "" ]
     IN db' = IF ok THEN [db EXCEPT !.automation_logs = Append(@, row)] ELSE db
  /\ run' = [run EXCEPT ![r] =
       [@ EXCEPT !.pc = "returned",
                 !.io = Append(@, StoreCall("automation_logs", ok,
                                             IF ok THEN {NewId(db.automation_logs)} ELSE {})),
                 !.result = << Summary(run[r]) >>]]

\* Step 8: the audit insert returns (its result is not looked at) and the
\* summary is returned to the route.
AuditInsertReturns(r, ok) ==
  /\ run[r].pc = "await_audit_insert"
  /\ UNCHANGED <<chat, today, stats, job>>
  /\ LET row == [ id            |-> NewId(db.automation_logs),
                  trigger_event |-> "new_hire_onboarding",
                  employee_id   |-> << run[r].employee[1].id >>,
                  actions_taken |-> run[r].timeline,
                  success       |-> (Len(run[r].errors) = 0),
                  error_message |-> "" ]
     IN db' = IF ok THEN [db EXCEPT !.automation_logs = Append(@, row)] ELSE db
  /\ run' = [run EXCEPT ![r] =
       [@ EXCEPT !.pc = "returned",
                 !.io = Append(@, StoreCall("automation_logs", ok,
                                             IF ok THEN {NewId(db.automation_logs)} ELSE {})),
                 !.result = << Summary(run[r]) >>]]

\* Mutant of CatchAuditInsertReturns: the outer catch returns the failure
\* without logging it.
CatchAuditInsertReturns_NoLog(r, ok) ==
  /\ run[r].pc = "catch"
  /\ UNCHANGED <<chat, today, stats, job>>
  /\ db' = db
  /\ run' = [run EXCEPT ![r] =
       [@ EXCEPT !.pc = "returned",
                 !.result = << [ success  |-> FALSE,
                                 error    |-> run[r].thrown,
                                 timeline |-> run[r].timeline,
                                 errors   |-> run[r].errors ] >>]]

\* The outer catch: the failure is logged (the insert's result is not looked
\* at) and the failure value is returned to the route.
CatchAuditInsertReturns(r, ok) ==
  /\ run[r].pc = "catch"
  /\ UNCHANGED <<chat, today, stats, job>>
  /\ LET row == [ id            |-> NewId(db.automation_logs),
                  trigger_event |-> "new_hire_onboarding",
                  employee_id   |-> << >>,
                  actions_taken |-> run[r].timeline,
                  success       |-> FALSE,
                  error_message |-> run[r].thrown ]
     IN db' = IF ok THEN [db EXCEPT !.automation_logs = Append(@, row)] ELSE db
  /\ run' = [run EXCEPT ![r] =
       [@ EXCEPT !.pc = "returned",
                 !.io = Append(@, StoreCall("automation_logs", ok,
                                             IF ok THEN {NewId(db.automation_logs)} ELSE {})),
                 !.result = << [ success  |-> FALSE,
                                 error    |-> run[r].thrown,
                                 timeline |-> run[r].timeline,
                                 errors   |-> run[r].errors ] >>]]

\* The route turns the orchestrator's value into the HTTP response.
OnboardResponse(result) ==
  IF ~ result.success
    THEN [ status |-> 500,
           body   |-> [ error    |-> "Onboarding failed",
                        details  |-> result.error,
                        timeline |-> result.timeline,
                        errors   |-> result.errors ] ]
    ELSE [ status |-> 200,
           body   |-> [ success    |-> TRUE,
                        employee   |-> result.employee,
                        automation |-> [ steps_completed |-> result.automation.steps_completed,
                                         timeline |-> MapSeq(result.automation.timeline,
                                                        LAMBDA e : [step |-> e.step]) ],
                        contracts  |-> result.deliverables.contracts,
                        compliance |-> [ items_count |->
                                           Len(result.deliverables.compliance_items) ],
                        calendar   |-> [ events_count |->
                                           Len(result.deliverables.calendar_events),
                                         events |-> result.deliverables.calendar_events ],
                        errors     |-> result.errors ] ]

OnboardResponds(r) ==
  /\ run[r].pc = "returned"
  /\ UNCHANGED <<chat, today, stats, job>>
  /\ run' = [run EXCEPT ![r] =
       [@ EXCEPT !.pc = "done", !.response = << OnboardResponse(run[r].result[1]) >>]]
  /\ UNCHANGED db

\* Spec: the service handles one onboarding request.
Next ==
  \/ OnboardPOST(1)
  \/ \E i \in 1..3, ok \in BOOLEAN : ContractSettles(1, i, ok)
  \/ ContractsJoined(1)
  \/ \E ok \in BOOLEAN : EmployeeInsertReturns(1, ok)
  \/ \E ok \in BOOLEAN : ContractSaveReturns(1, ok)
  \/ ComplianceDerived(1)
  \/ \E ok \in BOOLEAN : ComplianceInsertReturns(1, ok)
  \/ WelcomeEmailSent(1)
  \/ CalendarCreated(1)
  \/ AccessProvisioned(1)
  \/ \E ok \in BOOLEAN : AuditInsertReturns(1, ok)
  \/ \E ok \in BOOLEAN : CatchAuditInsertReturns(1, ok)
  \/ OnboardResponds(1)

Spec == Init /\ [][Next]_vars

\* ------------------------------------------------------------------------
\* The RAG chatbot: /api/chat/message and lib/hr-chatbot-rag
\* ------------------------------------------------------------------------
MaxChatRequests == 4
MaxFullRequests == 2
MaxDays == 1

\* RAG_CONFIG.similarityThreshold (0.5) in percent, RAG_CONFIG.maxPolicies
similarityThreshold == 50
maxPolicies == 3

\* route.js: question.length > 500
MaxQuestionLength == 500

\* The questions of the model and their String length / trim().length
Questions == {"", "   ", "How much annual leave do I have?", "q x 500", "q x 501"}

QuestionLength(q) ==
  CASE q = "" -> 0
    [] q = "   " -> 3
    [] q = "How much annual leave do I have?" -> 32
    [] q = "q x 500" -> 500
    [] q = "q x 501" -> 501

QuestionTrimmedLength(q) == IF q = "   " THEN 0 ELSE QuestionLength(q)

SeedPolicies ==
  << [id |-> 1, title |-> "Annual Leave Policy", category |-> "leave",
      content |-> "14 days of annual leave", embedding |-> << 1 >>],
     [id |-> 2, title |-> "Expense Policy", category |-> "expense",
      content |-> "claims within 30 days", embedding |-> << 2 >>],
     [id |-> 3, title |-> "Remote Work Policy", category |-> "remote_work",
      content |-> "two remote days a week", embedding |-> << 3 >>],
     [id |-> 4, title |-> "Benefits Policy", category |-> "benefits",
      content |-> "medical cover", embedding |-> << 4 >>] >>

SecondEmployee ==
  [ id |-> 2, email |-> <<"a", "@", "a", ".", "a">>, full_name |-> "Second Employee",
    first_name |-> "Second", last_name |-> "Employee",
    role |-> "Engineer", country |-> "SG", department |-> "Engineering",
    equity_shares |-> 0, start_date |-> "2025-03-01",
    leave_balance_days |-> 14, last_leave_date |-> << -10 >>, manager_id |-> << 1 >> ]

SeedMessage ==
  [ id |-> 1, employee_id |-> 2, message |-> "seeded question",
    response |-> "seeded answer",
    policies_referenced |-> << 1 >>, similarity_scores |-> << 90 >>,
    helpful |-> "null", feedback_comment |-> "", created_at |-> 1 ]

\* The store the chatbot runs against: two employees, four policies with
\* embeddings, one earlier conversation turn.
ChatDb ==
  [EmptyDb EXCEPT !.employees = << SeedEmployee, SecondEmployee >>,
                  !.policies = SeedPolicies,
                  !.chat_messages = << SeedMessage >>]

\* A question embedding, as far as retrieval depends on it: the cosine
\* similarity (1 - distance, in percent) of the question to every policy.
Embeddings ==
  { <<40, 40, 40, 40>>,
    <<50, 60, 40, 90>>,
    <<60, 60, 90, 90>>,
    <<90, 70, 60, 80>> }

\* Mutant of match_policies: no LIMIT.
match_policies_NoLimit(policies, query_embedding, match_threshold, match_count) ==
  LET matching == { i \in 1..Len(policies) :
                      /\ policies[i].embedding # << >>
                      /\ query_embedding[policies[i].id] > match_threshold }
      n == Cardinality(matching)
  IN { MapSeq(picked, LAMBDA i :
         [ id |-> policies[i].id, title |-> policies[i].title,
           content |-> policies[i].content, category |-> policies[i].category,
           similarity |-> query_embedding[policies[i].id] ]) :
       picked \in
         { q \in [1..n -> matching] :
             \A a, b \in 1..n : a < b =>
               /\ q[a] # q[b]
               /\ query_embedding[policies[q[a]].id] >= query_embedding[policies[q[b]].id] } }

\* match_policies(query_embedding, match_threshold, match_count): the rows
\* with similarity > match_threshold, ORDER BY distance, LIMIT match_count.
\* Rows at the same distance come in either order, so this is the set of
\* the results the store may return.
match_policies(policies, query_embedding, match_threshold, match_count) ==
  LET matching == { i \in 1..Len(policies) :
                      /\ policies[i].embedding # << >>
                      /\ query_embedding[policies[i].id] > match_threshold }
      n == IF Cardinality(matching) < match_count THEN Cardinality(matching)
           ELSE match_count
  IN { MapSeq(picked, LAMBDA i :
         [ id |-> policies[i].id, title |-> policies[i].title,
           content |-> policies[i].content, category |-> policies[i].category,
           similarity |-> query_embedding[policies[i].id] ]) :
       picked \in
         { q \in [1..n -> matching] :
             /\ \A a, b \in 1..n : a < b =>
                  /\ q[a] # q[b]
                  /\ query_embedding[policies[q[a]].id] >= query_embedding[policies[q[b]].id]
             /\ \A i \in matching :
                  (\A a \in 1..n : q[a] # i) =>
                    \A a \in 1..n :
                      query_embedding[policies[q[a]].id] >= query_embedding[policies[i].id] } }

\* The block of the index-th policy in the context: its numbered title and
\* category, its content and the delimiter line.
PolicyBlock(policies, index) ==
  [ index     |-> index,
    title     |-> policies[index].title,
    category  |-> policies[index].category,
    content   |-> policies[index].content,
    delimiter |-> "---" ]

\* Mutant of buildEmployeeContext: the policies are listed last first.
buildEmployeeContext_LastFirst(employee, policies, now) ==
  [ name          |-> employee.full_name,
    role          |-> employee.role,
    department    |-> employee.department,
    country       |-> employee.country,
    start_date    |-> employee.start_date,
    leave_balance |-> employee.leave_balance_days,
    last_leave    |-> IF employee.last_leave_date # << >>
                        THEN << now - employee.last_leave_date[1] >> ELSE << >>,
    reports_to    |-> employee.manager_id,
    policies      |-> [i \in 1..Len(policies) |->
                         PolicyBlock(policies, Len(policies) + 1 - i)],
    no_policies_placeholder |-> (Len(policies) = 0) ]

\* buildEmployeeContext(employee, policies): the text block, by its parts.
\* now is new Date(), as a day number: the "Last Leave: N days ago" line of
\* an employee with a last_leave_date is computed from it.
buildEmployeeContext(employee, policies, now) ==
  [ name          |-> employee.full_name,
    role          |-> employee.role,
    department    |-> employee.department,
    country       |-> employee.country,
    start_date    |-> employee.start_date,
    leave_balance |-> employee.leave_balance_days,
    last_leave    |-> IF employee.last_leave_date # << >>
                        THEN << now - employee.last_leave_date[1] >> ELSE << >>,
    reports_to    |-> employee.manager_id,
    policies      |-> [i \in 1..Len(policies) |-> PolicyBlock(policies, i)],
    no_policies_placeholder |-> (Len(policies) = 0) ]

\* An entry of the log of the external calls of a chat request
ChatCall(op, ok) == [op |-> op, ok |-> ok]

\* The catch of processHRQuestion
ChatFailure(st, msg) ==
  [st EXCEPT !.pc = "returned",
             !.result = << [success |-> FALSE, error |-> msg, trace |-> st.trace] >>]

\* Mutant of ChatPOST: the length check rejects a question of 500 characters.
ChatPOST_RejectsAtLimit ==
  /\ chat.pc = "idle"
  /\ chat.served < MaxChatRequests
  /\ \E employeeId \in 0..(Len(db.employees) + 1), question \in Questions :
       LET st == [IdleChat EXCEPT !.served = chat.served, !.method = "POST",
                                  !.employeeId = employeeId, !.question = question]
           bad(msg) == [st EXCEPT !.pc = "done",
                                  !.response = << [status |-> 400, body |-> [error |-> msg]] >>]
       IN chat' =
            IF employeeId = 0
              THEN bad("Employee ID is required")
            ELSE IF QuestionLength(question) = 0 \/ QuestionTrimmedLength(question) = 0
              THEN bad("Question is required")
            ELSE IF QuestionLength(question) >= MaxQuestionLength
              THEN bad("Question too long (max 500 characters)")
            ELSE [st EXCEPT !.pc = "await_employee"]
  /\ UNCHANGED <<db, run, today, stats, job>>

\* POST /api/chat/message: validation, then processHRQuestion up to the
\* employee lookup being issued.
ChatPOST ==
  /\ chat.pc = "idle"
  /\ chat.served < MaxChatRequests
  /\ \E employeeId \in 0..(Len(db.employees) + 1), question \in Questions :
       LET st == [IdleChat EXCEPT !.served = chat.served, !.method = "POST",
                                  !.employeeId = employeeId, !.question = question]
           bad(msg) == [st EXCEPT !.pc = "done",
                                  !.response = << [status |-> 400, body |-> [error |-> msg]] >>]
       IN chat' =
            IF employeeId = 0
              THEN bad("Employee ID is required")
            ELSE IF QuestionLength(question) = 0 \/ QuestionTrimmedLength(question) = 0
              THEN bad("Question is required")
            ELSE IF QuestionLength(question) > MaxQuestionLength
              THEN bad("Question too long (max 500 characters)")
            ELSE [st EXCEPT !.pc = "await_employee"]
  /\ UNCHANGED <<db, run, today, stats, job>>

\* Mutant of EmployeeFetched: only a missing row aborts; an error of the
\* lookup is ignored when the store holds the employee.
EmployeeFetched_IgnoresError(ok) ==
  /\ chat.pc = "await_employee"
  /\ LET rows == SelectSeq(db.employees, LAMBDA e : e.id = chat.employeeId)
         st   == [chat EXCEPT !.io = Append(@, ChatCall("select employees", ok))]
     IN chat' =
          IF rows = << >>
            THEN ChatFailure(st, "Employee not found")
            ELSE [st EXCEPT !.pc = "await_embedding",
                            !.employee = << rows[1] >>,
                            !.trace = Append(@, "fetch_employee")]
  /\ UNCHANGED <<db, run, today, stats, job>>

\* Step 1: the employee lookup returns; an error or no row throws
\* 'Employee not found'.  Otherwise the embedding call is issued.
EmployeeFetched(ok) ==
  /\ chat.pc = "await_employee"
  /\ LET rows == SelectSeq(db.employees, LAMBDA e : e.id = chat.employeeId)
         st   == [chat EXCEPT !.io = Append(@, ChatCall("select employees", ok))]
     IN chat' =
          IF ~ ok \/ rows = << >>
            THEN ChatFailure(st, "Employee not found")
            ELSE [st EXCEPT !.pc = "await_embedding",
                            !.employee = << rows[1] >>,
                            !.trace = Append(@, "fetch_employee")]
  /\ UNCHANGED <<db, run, today, stats, job>>

\* Step 2: the embedding call returns or rejects; a rejection reaches the
\* catch.  Otherwise the similarity search is issued.
EmbeddingReturns(ok) ==
  /\ chat.pc = "await_embedding"
  /\ \E embedding \in Embeddings :
       LET st == [chat EXCEPT !.io = Append(@, ChatCall("embeddings.create", ok))]
       IN chat' =
            IF ~ ok
              THEN ChatFailure(st, "embedding failed")
              ELSE [st EXCEPT !.pc = "await_search",
                              !.questionEmbedding = embedding,
                              !.trace = Append(@, "generate_embedding")]
  /\ UNCHANGED <<db, run, today, stats, job>>

\* Step 3: match_policies returns; an error is logged and the policies are
\* null.  The context is built (step 4) and the chat completion is issued.
SearchReturns(ok) ==
  /\ chat.pc = "await_search"
  /\ \E found \in match_policies(db.policies, chat.questionEmbedding,
                                 similarityThreshold, maxPolicies) :
       chat' = [chat EXCEPT !.pc = "await_completion",
                            !.relevantPolicies = IF ok THEN found ELSE << >>,
                            !.io = Append(@, ChatCall("rpc match_policies", ok)),
                            !.trace = Append(@, "semantic_search")]
  /\ UNCHANGED <<db, run, today, stats, job>>

\* Step 5: the chat completion, called with the context of step 4, returns or
\* rejects.  Otherwise the insert of the conversation turn is issued.
CompletionReturns(ok) ==
  /\ chat.pc = "await_completion"
  /\ LET context == buildEmployeeContext(chat.employee[1], chat.relevantPolicies, today)
         st == [chat EXCEPT !.io = Append(@, [op |-> "chat.completions.create", ok |-> ok,
                                              context |-> context])]
     IN chat' =
          IF ~ ok
            THEN ChatFailure(st, "completion failed")
            ELSE [st EXCEPT !.pc = "await_save",
                            !.answer = "generated answer",
                            !.trace = Append(@, "generate_answer")]
  /\ UNCHANGED <<run, db, today, stats, job>>

\* The value processHRQuestion returns on its success path
ChatResult(st, savedMessage) ==
  [ success  |-> TRUE,
    question |-> st.question,
    answer   |-> st.answer,
    employee |-> [ id |-> st.employee[1].id, name |-> st.employee[1].full_name,
                   role |-> st.employee[1].role, country |-> st.employee[1].country ],
    context  |-> [ policies_used |-> Len(st.relevantPolicies),
                   policies |-> MapSeq(st.relevantPolicies, LAMBDA pol :
                                  [title |-> pol.title, category |-> pol.category,
                                   similarity |-> pol.similarity]) ],
    metadata |-> [ conversation_id |-> MapSeq(savedMessage, LAMBDA m : m.id) ],
    trace    |-> st.trace ]

\* Step 6: the insert of the conversation turn returns; an error is logged
\* and the result is returned all the same, without a conversation id.
ConversationSaveReturns(ok) ==
  /\ chat.pc = "await_save"
  /\ LET row == [ id                  |-> NewId(db.chat_messages),
                  employee_id         |-> chat.employeeId,
                  message             |-> chat.question,
                  response            |-> chat.answer,
                  policies_referenced |-> MapSeq(chat.relevantPolicies, LAMBDA pol : pol.id),
                  similarity_scores   |-> MapSeq(chat.relevantPolicies,
                                                 LAMBDA pol : pol.similarity),
                  helpful             |-> "null",
                  feedback_comment    |-> "",
                  \* DEFAULT NOW(): later than every stored turn
                  created_at          |-> NewId(db.chat_messages) ]
         savedMessage == IF ok THEN << row >> ELSE << >>
         st == [chat EXCEPT !.io = Append(@, ChatCall("insert chat_messages", ok)),
                            !.trace = Append(@, "save_conversation")]
     IN /\ db' = [db EXCEPT !.chat_messages = @ \o savedMessage]
        /\ chat' = [st EXCEPT !.pc = "returned",
                              !.result = << ChatResult(st, savedMessage) >>]
  /\ UNCHANGED <<run, today, stats, job>>

\* The route turns the value of processHRQuestion into the HTTP response.
ChatResponse(result) ==
  IF ~ result.success
    THEN [ status |-> 500,
           body   |-> [error |-> "Failed to process question", details |-> result.error] ]
    ELSE [ status |-> 200,
           body   |-> [ success         |-> TRUE,
                        conversation_id |-> result.metadata.conversation_id,
                        question        |-> result.question,
                        answer          |-> result.answer,
                        employee        |-> result.employee,
                        context         |-> result.context ] ]

ChatPOSTResponds ==
  /\ chat.pc = "returned"
  /\ chat.method = "POST"
  /\ chat' = [chat EXCEPT !.pc = "done", !.response = << ChatResponse(chat.result[1]) >>]
  /\ UNCHANGED <<db, run, today, stats, job>>

\* typeof helpful === 'boolean', on the JSON values the model sends
IsBoolean(v) == v \in {"true", "false"}

\* PUT /api/chat/message: validation, then provideFeedback issues the update.
ChatPUT ==
  /\ chat.pc = "idle"
  /\ chat.served < MaxChatRequests
  /\ \E messageId \in 0..(Len(db.chat_messages) + 1),
        helpful \in {"true", "false", "yes"}, comment \in {"", "thanks"} :
       LET st == [IdleChat EXCEPT !.served = chat.served, !.method = "PUT",
                                  !.messageId = messageId, !.helpful = helpful,
                                  !.comment = comment]
           bad(msg) == [st EXCEPT !.pc = "done",
                                  !.response = << [status |-> 400, body |-> [error |-> msg]] >>]
       IN chat' =
            IF messageId = 0
              THEN bad("Message ID is required")
            ELSE IF ~ IsBoolean(helpful)
              THEN bad("Helpful must be true or false")
            ELSE [st EXCEPT !.pc = "await_feedback"]
  /\ UNCHANGED <<db, run, today, stats, job>>

\* Mutant of FeedbackReturns: feedback is written only to a turn that has
\* none yet.
FeedbackReturns_FirstWriteWins(ok) ==
  /\ chat.pc = "await_feedback"
  /\ db' = IF ok
             THEN [db EXCEPT !.chat_messages =
                     MapSeq(@, LAMBDA m :
                       IF m.id = chat.messageId /\ m.helpful = "null"
                         THEN [m EXCEPT !.helpful = chat.helpful,
                                        !.feedback_comment = chat.comment]
                         ELSE m)]
             ELSE db
  /\ chat' = [chat EXCEPT
       !.pc = "done",
       !.io = Append(@, ChatCall("update chat_messages", ok)),
       !.result = IF ok THEN << [success |-> TRUE] >> ELSE << >>,
       !.response =
         IF ok
           THEN << [status |-> 200, body |-> [success |-> TRUE, message |-> "Feedback saved"]] >>
           ELSE << [status |-> 500, body |-> [error |-> "Failed to save feedback: update failed"]] >>]
  /\ UNCHANGED <<run, today, stats, job>>

\* provideFeedback: the update of the rows with id = messageId returns.  An
\* error is thrown and the route's catch answers 500; otherwise the route
\* answers 200, whether or not a row matched.
FeedbackReturns(ok) ==
  /\ chat.pc = "await_feedback"
  /\ db' = IF ok
             THEN [db EXCEPT !.chat_messages =
                     MapSeq(@, LAMBDA m :
                       IF m.id = chat.messageId
                         THEN [m EXCEPT !.helpful = chat.helpful,
                                        !.feedback_comment = chat.comment]
                         ELSE m)]
             ELSE db
  /\ chat' = [chat EXCEPT
       !.pc = "done",
       !.io = Append(@, ChatCall("update chat_messages", ok)),
       !.result = IF ok THEN << [success |-> TRUE] >> ELSE << >>,
       !.response =
         IF ok
           THEN << [status |-> 200, body |-> [success |-> TRUE, message |-> "Feedback saved"]] >>
           ELSE << [status |-> 500, body |-> [error |-> "Failed to save feedback: update failed"]] >>]
  /\ UNCHANGED <<run, today, stats, job>>

\* GET /api/chat/message?employeeId=..&limit=..
\* The values of the limit parameter the model sends; "" is no parameter.
LimitParams == {"", "1", "2"}

\* limit = 10 in getConversationHistory, '10' in the route
DefaultLimit == 10

\* parseInt(searchParams.get('limit') || '10')
parseLimit(param) ==
  CASE param = ""  -> DefaultLimit
    [] param = "1" -> 1
    [] param = "2" -> 2

\* .order('created_at', { ascending: false }): the turns of one request after
\* the other have different created_at, so the order is determined.
RECURSIVE OrderByCreatedAtDesc(_)
OrderByCreatedAtDesc(rows) ==
  IF rows = << >> THEN << >>
  ELSE LET newest == CHOOSE i \in 1..Len(rows) :
                       \A k \in 1..Len(rows) : rows[k].created_at <= rows[i].created_at
       IN << rows[newest] >>
            \o OrderByCreatedAtDesc(SubSeq(rows, 1, newest - 1)
                                      \o SubSeq(rows, newest + 1, Len(rows)))

\* .limit(n)
Limit(rows, n) == SubSeq(rows, 1, IF n < Len(rows) THEN n ELSE Len(rows))

\* Array.prototype.reverse
Reverse(rows) == [i \in 1..Len(rows) |-> rows[Len(rows) + 1 - i]]

\* Mutant of getConversationHistory: the rows are not reversed.
getConversationHistory_NewestFirst(chat_messages, employeeId, limit) ==
  Limit(OrderByCreatedAtDesc(
          SelectSeq(chat_messages, LAMBDA m : m.employee_id = employeeId)), limit)

\* getConversationHistory(employeeId, {limit}): what it returns when the
\* select succeeds
getConversationHistory(chat_messages, employeeId, limit) ==
  Reverse(Limit(OrderByCreatedAtDesc(
                  SelectSeq(chat_messages, LAMBDA m : m.employee_id = employeeId)), limit))

\* GET: validation, then getConversationHistory issues the select.
ChatGET ==
  /\ chat.pc = "idle"
  /\ chat.served < MaxChatRequests
  /\ \E employeeId \in 0..(Len(db.employees) + 1), param \in LimitParams :
       LET st == [IdleChat EXCEPT !.served = chat.served, !.method = "GET",
                                  !.employeeId = employeeId,
                                  !.limitParam = param,
                                  !.limit = parseLimit(param)]
       IN chat' =
            IF employeeId = 0
              THEN [st EXCEPT !.pc = "done",
                              !.response = << [status |-> 400,
                                               body |-> [error |-> "Employee ID is required"]] >>]
              ELSE [st EXCEPT !.pc = "await_history"]
  /\ UNCHANGED <<db, run, today, stats, job>>

\* The select of getConversationHistory returns.  An error is thrown and the
\* route's catch answers 500; otherwise the route answers 200 with the turns.
HistoryReturns(ok) ==
  /\ chat.pc = "await_history"
  /\ LET history == getConversationHistory(db.chat_messages, chat.employeeId, chat.limit)
     IN chat' = [chat EXCEPT
          !.pc = "done",
          !.io = Append(@, ChatCall("select chat_messages", ok)),
          !.response =
            IF ok
              THEN << [ status |-> 200,
                        body |-> [ success       |-> TRUE,
                                   employee_id   |-> chat.employeeId,
                                   conversations |->
                                     MapSeq(history, LAMBDA msg :
                                       [ id            |-> msg.id,
                                         question      |-> msg.message,
                                         answer        |-> msg.response,
                                         timestamp     |-> msg.created_at,
                                         helpful       |-> msg.helpful,
                                         policies_used |-> Len(msg.policies_referenced) ]),
                                   count         |-> Len(history) ] ] >>
              ELSE << [ status |-> 500,
                        body |-> [error |-> "Failed to fetch history: select failed"] ] >>]
  /\ UNCHANGED <<db, run, today, stats, job>>

\* The response has been sent; the service waits for the next request.
ChatRequestDone ==
  /\ chat.pc = "done"
  /\ chat' = [IdleChat EXCEPT !.served = chat.served + 1]
  /\ UNCHANGED <<db, run, today, stats, job>>

\* A day passes between two requests.
DayPasses ==
  /\ chat.pc = "idle"
  /\ today < MaxDays
  /\ today' = today + 1
  /\ UNCHANGED <<db, run, chat, stats, job>>

\* SpecChat: the chat service answers requests one after the other against a
\* store with employees, policies and an earlier conversation.
InitChat ==
  /\ db = ChatDb
  /\ run = [r \in RunIds |-> IdleRun]
  /\ chat = IdleChat
  /\ today = 0
  /\ stats = IdleStats
  /\ job = IdleJob

NextChat ==
  \/ chat.served < MaxFullRequests /\ ChatPOST
  \/ \E ok \in BOOLEAN : EmployeeFetched(ok)
  \/ \E ok \in BOOLEAN : EmbeddingReturns(ok)
  \/ \E ok \in BOOLEAN : SearchReturns(ok)
  \/ \E ok \in BOOLEAN : CompletionReturns(ok)
  \/ \E ok \in BOOLEAN : ConversationSaveReturns(ok)
  \/ ChatPOSTResponds
  \/ chat.served < MaxFullRequests /\ ChatPUT
  \/ \E ok \in BOOLEAN : FeedbackReturns(ok)
  \/ ChatRequestDone
  \/ DayPasses

SpecChat == InitChat /\ [][NextChat]_vars

\* SpecTurns: the life of conversation turns.  The chat service answers
\* requests one after the other (questions, feedback, history) against a store
\* where one employee has eleven earlier turns and the other has one.  The
\* requests name existing employees, ask one question whose embedding matches
\* two policies, and give feedback on the newest earlier turn or on the first
\* new one.
SeedTurn(id) ==
  [ SeedMessage EXCEPT !.id = id, !.created_at = id,
                       !.employee_id = IF id = 5 THEN 1 ELSE 2 ]

TurnsDb == [ChatDb EXCEPT !.chat_messages = [id \in 1..12 |-> SeedTurn(id)]]

InitTurns ==
  /\ db = TurnsDb
  /\ run = [r \in RunIds |-> IdleRun]
  /\ chat = IdleChat
  /\ today = 0
  /\ stats = IdleStats
  /\ job = IdleJob

TurnsPOST ==
  /\ ChatPOST
  /\ chat'.employeeId \in {1, 2}
  /\ chat'.question = "How much annual leave do I have?"

TurnsEmbeddingReturns(ok) ==
  /\ EmbeddingReturns(ok)
  /\ chat'.questionEmbedding \in {<< >>, <<50, 60, 40, 90>>}

TurnsPUT ==
  /\ ChatPUT
  /\ chat'.messageId \in {Len(TurnsDb.chat_messages), Len(TurnsDb.chat_messages) + 1}
  /\ chat'.helpful \in {"true", "false"}

TurnsGET ==
  /\ ChatGET
  /\ chat'.employeeId \in {1, 2}

NextTurns ==
  \/ TurnsPOST
  \/ \E ok \in BOOLEAN : EmployeeFetched(ok)
  \/ \E ok \in BOOLEAN : TurnsEmbeddingReturns(ok)
  \/ \E ok \in BOOLEAN : SearchReturns(ok)
  \/ \E ok \in BOOLEAN : CompletionReturns(ok)
  \/ \E ok \in BOOLEAN : ConversationSaveReturns(ok)
  \/ ChatPOSTResponds
  \/ TurnsPUT
  \/ \E ok \in BOOLEAN : FeedbackReturns(ok)
  \/ TurnsGET
  \/ \E ok \in BOOLEAN : HistoryReturns(ok)
  \/ ChatRequestDone

SpecTurns == InitTurns /\ [][NextTurns]_vars

\* ------------------------------------------------------------------------
\* Vocabulary of the properties of the onboarding orchestrator
\* ------------------------------------------------------------------------
Returned(r) == run[r].result # << >>

Result(r) == run[r].result[1]

\* The store calls of request r on a table, as they returned
StoreCalls(r, table) == SelectSeq(run[r].io, LAMBDA c : c.table = table)

EmployeeInsertSucceeded(r) == \E c \in Range(StoreCalls(r, "employees")) : c.ok

EmployeeInsertFailed(r) == \E c \in Range(StoreCalls(r, "employees")) : ~ c.ok

\* The rows of a table that request r stored
RowsAdded(r, table) ==
  SelectSeq(db[table],
            LAMBDA row : \E c \in Range(StoreCalls(r, table)) : row.id \in c.ids)

\* The contract types of request r whose generation rejected / fulfilled
RejectedTypes(r) ==
  { contractTypes(run[r].candidateData)[i] :
      i \in { k \in 1..Len(run[r].promises) : run[r].promises[k] = "null" } }

FulfilledTypes(r) ==
  SelectSeq([i \in 1..Len(run[r].promises) |->
               IF run[r].promises[i] = "fulfilled"
                 THEN contractTypes(run[r].candidateData)[i] ELSE ""],
            LAMBDA t : t # "")

\* The generated contracts whose save was refused: the i-th generated_contracts
\* call of the request is the save of the i-th successful contract.
SaveFailedTypes(r) ==
  { run[r].successfulContracts[i].contractType :
      i \in { k \in 1..Len(StoreCalls(r, "generated_contracts")) :
                ~ StoreCalls(r, "generated_contracts")[k].ok } }

ComplianceInsertFailed(r) == \E c \in Range(StoreCalls(r, "compliance_items")) : ~ c.ok

ErrorsOf(errors, step) == SelectSeq(errors, LAMBDA e : e.step = step)

IsPrefix(s, t) == Len(s) <= Len(t) /\ \A i \in 1..Len(s) : s[i] = t[i]

StepsOf(timeline) == MapSeq(timeline, LAMBDA e : e.step)

\* C1 (as claimed): whenever the employee insert succeeded, the call returns
\* success:true whichever of stages 1, 3 and 4 failed, and each such failure
\* (a rejected generation, a refused contract save, a failed stage 4) is an
\* entry of the returned errors.
C1_PartialFailureIsSuccess ==
  \A r \in RunIds :
    (Returned(r) /\ EmployeeInsertSucceeded(r)) =>
      /\ Result(r).success
      /\ \A t \in RejectedTypes(r) :
           \E e \in Range(ErrorsOf(Result(r).errors, "contract_generation")) : e.type = t
      /\ \A t \in SaveFailedTypes(r) :
           \E e \in Range(ErrorsOf(Result(r).errors, "contract_save")) : e.type = t
      /\ ComplianceInsertFailed(r) => ErrorsOf(Result(r).errors, "compliance_init") # << >>

\* C2: if the employee insert failed, the call returns success:false and the
\* request inserts no generated_contracts row and no compliance_items row,
\* nor does it issue any such insert.
C2_EmployeeFailureIsFatal ==
  \A r \in RunIds :
    EmployeeInsertFailed(r) =>
      /\ Returned(r) => ~ Result(r).success
      /\ RowsAdded(r, "generated_contracts") = << >>
      /\ RowsAdded(r, "compliance_items") = << >>
      /\ StoreCalls(r, "generated_contracts") = << >>
      /\ StoreCalls(r, "compliance_items") = << >>
      /\ run[r].pc \in {"catch", "returned", "done"}

\* C2 witness: the employee insert failed after a contract had been generated,
\* and the route answered.
C2_Witness ==
  \E r \in RunIds :
    /\ run[r].pc = "done" /\ EmployeeInsertFailed(r)
    /\ run[r].successfulContracts # << >>
    /\ ~ Result(r).success

\* C3 (as claimed): a call that returns success:false is one whose employee
\* insert failed, and it created no Employee row.
C3_OnlyStage2IsFatal ==
  \A r \in RunIds :
    (Returned(r) /\ ~ Result(r).success) =>
      /\ EmployeeInsertFailed(r)
      /\ RowsAdded(r, "employees") = << >>

\* C4: stage 2 starts only after every generateContract call has settled; the
\* contracts of the summary are exactly the fulfilled types, in request order;
\* the errors hold exactly one contract_generation entry per rejected type and
\* none for a fulfilled one.
C4_FanOutJoin ==
  \A r \in RunIds :
    /\ (run[r].pc \notin {"idle", "await_contracts"} /\ run[r].response = << >>) =>
         \A i \in 1..Len(run[r].promises) : run[r].promises[i] # "pending"
    /\ StoreCalls(r, "employees") # << >> =>
         \A i \in 1..Len(run[r].promises) : run[r].promises[i] # "pending"
    /\ (Returned(r) /\ Result(r).success) =>
         MapSeq(Result(r).deliverables.contracts, LAMBDA c : c.type) = FulfilledTypes(r)
    /\ Returned(r) =>
         \A t \in Range(contractTypes(run[r].candidateData)) :
           Len(SelectSeq(ErrorsOf(Result(r).errors, "contract_generation"),
                         LAMBDA e : e.type = t))
             = IF t \in RejectedTypes(r) THEN 1 ELSE 0

\* C4 witness: a summary was returned after the first of three generations
\* rejected and its two siblings fulfilled.
C4_Witness ==
  \E r \in RunIds :
    /\ Returned(r) /\ Result(r).success
    /\ run[r].promises = <<"null", "fulfilled", "fulfilled">>
    /\ Len(Result(r).deliverables.contracts) = 2

StageOrder ==
  << "contracts_generated", "employee_created", "contracts_saved",
     "compliance_initialized", "welcome_email_sent", "calendar_events_created",
     "system_access_provisioned" >>

\* C5: the timeline is always a prefix of the fixed stage order; a successful
\* call returns all 7 entries; a stage that needs the employee id (contract
\* save, compliance, email, calendar, access) has acted only after
\* employee_created was recorded.
C5_StageOrder ==
  \A r \in RunIds :
    /\ IsPrefix(StepsOf(run[r].timeline), StageOrder)
    /\ (Returned(r) /\ Result(r).success) =>
         /\ StepsOf(Result(r).automation.timeline) = StageOrder
         /\ Result(r).automation.steps_completed = 7
    /\ ( \/ StoreCalls(r, "generated_contracts") # << >>
         \/ StoreCalls(r, "compliance_items") # << >>
         \/ run[r].complianceItems # << >>
         \/ run[r].emailResult # << >>
         \/ run[r].calendarEvents # << >>
         \/ run[r].accessProvisions # << >> ) =>
         /\ Len(run[r].timeline) >= 2
         /\ run[r].timeline[2].step = "employee_created"
         /\ run[r].employee # << >>

\* C5 witness: a successful call that saved a contract returned its timeline.
C5_Witness ==
  \E r \in RunIds :
    /\ Returned(r) /\ Result(r).success
    /\ Len(run[r].savedContracts) = 3
    /\ Len(Result(r).automation.timeline) = 7

\* The audit entry request r stored, if any
AuditRows(r) == RowsAdded(r, "automation_logs")

C6_AuditState ==
  \A r \in RunIds :
    /\ ~ Returned(r) =>
         StoreCalls(r, "automation_logs") = << >> /\ AuditRows(r) = << >>
    /\ Returned(r) =>
         /\ Len(StoreCalls(r, "automation_logs")) = 1
         /\ Len(AuditRows(r)) = IF StoreCalls(r, "automation_logs")[1].ok THEN 1 ELSE 0
         /\ (EmployeeInsertFailed(r) /\ AuditRows(r) # << >>) =>
              /\ AuditRows(r)[1].success = FALSE
              /\ AuditRows(r)[1].error_message = Result(r).error
              /\ AuditRows(r)[1].error_message # ""
              /\ AuditRows(r)[1].actions_taken = Result(r).timeline
              /\ StepsOf(AuditRows(r)[1].actions_taken) = <<"contracts_generated">>

\* No step changes or removes an automation_logs entry.
AuditLogAppendOnly ==
  /\ Len(db'.automation_logs) >= Len(db.automation_logs)
  /\ \A i \in 1..Len(db.automation_logs) : db'.automation_logs[i] = db.automation_logs[i]

WellFormedEmail(s) ==
  /\ \A k \in 1..Len(s) : s[k] # " "
  /\ Cardinality({k \in 1..Len(s) : s[k] = "@"}) = 1
  /\ LET at == CHOOSE k \in 1..Len(s) : s[k] = "@"
     IN /\ at > 1
        /\ \E j \in (at + 2)..(Len(s) - 1) : s[j] = "."

InvalidOnboardBody(body) ==
  \/ \E f \in Range(requiredFields) : body[f] = FalsyValue(f)
  \/ ~ WellFormedEmail(body.email)
  \/ body.country \notin {"SG", "UK", "US", "IN", "UAE"}

\* C10: a request with a required field missing, a malformed email or an
\* unsupported country is answered 400; the orchestrator is not invoked and
\* the store is as it was when the request arrived.
C10_InvalidInputRejected ==
  \A r \in RunIds :
    (run[r].pc # "idle" /\ InvalidOnboardBody(run[r].candidateData)) =>
      /\ run[r].pc = "done"
      /\ Len(run[r].response) = 1
      /\ run[r].response[1].status = 400
      /\ run[r].promises = << >> /\ run[r].io = << >> /\ run[r].result = << >>
      /\ run[r].timeline = << >>
      /\ db = run[r].dbAtStart

\* C10 witness: a complete body with an unsupported country was answered 400
\* while the store held an employee.
C10_Witness ==
  \E r \in RunIds :
    /\ run[r].pc = "done"
    /\ run[r].candidateData = [BaseBody EXCEPT !.country = "FR"]
    /\ run[r].response[1].status = 400
    /\ db = SeedDb

\* ------------------------------------------------------------------------
\* Vocabulary of the properties of the chatbot
\* ------------------------------------------------------------------------
\* processHRQuestion has returned to the route for the request in service
ChatReturned == chat.pc \in {"returned", "done"} /\ chat.method = "POST" /\ chat.result # << >>

\* the external calls of the request in service, by operation
ChatCalls(op) == SelectSeq(chat.io, LAMBDA c : c.op = op)

ChatCallFailed(op) == \E i \in 1..Len(ChatCalls(op)) : ~ ChatCalls(op)[i].ok

ChatStoreAndProviderUp == \A i \in 1..Len(chat.io) : chat.io[i].ok

\* the request in service has been answered
ChatAnswered == chat.pc = "done" /\ chat.response # << >>

\* C7: processHRQuestion never reports success without a persisted
\* conversation turn: a success:true result carries the id of a chat_messages
\* row that holds the question and the answer, and a request whose chat
\* completion call or chat_messages insert failed returns success:false and
\* is answered with 500.
C7_SuccessImpliesPersisted ==
  /\ (ChatReturned /\ chat.result[1].success) =>
       /\ chat.result[1].metadata.conversation_id # << >>
       /\ \E i \in 1..Len(db.chat_messages) :
            /\ db.chat_messages[i].id = chat.result[1].metadata.conversation_id[1]
            /\ db.chat_messages[i].employee_id = chat.employeeId
            /\ db.chat_messages[i].message = chat.question
            /\ db.chat_messages[i].response = chat.result[1].answer
  /\ (ChatReturned /\ (ChatCallFailed("chat.completions.create")
                        \/ ChatCallFailed("insert chat_messages"))) =>
       /\ ~ chat.result[1].success
       /\ ChatAnswered => chat.response[1].status = 500

\* C8: a retrieval failure is not fatal: when the embedding call or
\* match_policies fails for a request of an existing employee, the chat
\* completion is still called, with no policies and the placeholder in the
\* context, and unless that call fails the result is success:true with
\* policies_used = 0.
C8_RetrievalFailureNonFatal ==
  (ChatReturned /\ (ChatCallFailed("embeddings.create")
                     \/ ChatCallFailed("rpc match_policies"))) =>
    /\ Len(ChatCalls("chat.completions.create")) = 1
    /\ ChatCalls("chat.completions.create")[1].context.policies = << >>
    /\ ChatCalls("chat.completions.create")[1].context.no_policies_placeholder
    /\ ChatCalls("chat.completions.create")[1].ok =>
         /\ chat.result[1].success
         /\ chat.result[1].context.policies_used = 0

\* C9: an operation naming an entity that does not exist is answered with
\* 404 or 400, never with success or a generic failure: a POST whose
\* employeeId no employee has, and a PUT whose messageId no conversation turn
\* has, the store and the providers answering without error.
C9_UnknownEntityIsNotFound ==
  /\ (ChatAnswered /\ chat.method = "POST" /\ ChatStoreAndProviderUp
        /\ chat.employeeId # 0
        /\ \A i \in 1..Len(db.employees) : db.employees[i].id # chat.employeeId) =>
       chat.response[1].status \in {400, 404}
  /\ (ChatAnswered /\ chat.method = "PUT" /\ ChatStoreAndProviderUp
        /\ chat.messageId # 0
        /\ \A i \in 1..Len(db.chat_messages) : db.chat_messages[i].id # chat.messageId) =>
       chat.response[1].status \in {400, 404}

\* ------------------------------------------------------------------------
\* The responses of POST /api/automation/onboard
\* ------------------------------------------------------------------------
\* request r has been answered
Answered(r) == run[r].pc = "done" /\ Len(run[r].response) = 1

Response(r) == run[r].response[1]

\* C11 (as claimed): every 400 of POST /api/automation/onboard has a
\* `missing` or a `valid_countries` field in its body.
C11_Every400NamesProblem ==
  \A r \in RunIds :
    (Answered(r) /\ Response(r).status = 400) =>
      \/ "missing" \in DOMAIN Response(r).body
      \/ "valid_countries" \in DOMAIN Response(r).body

\* C11 (amended): every 400 of POST /api/automation/onboard has an `error`
\* field; with required fields absent it also has `missing`, the absent
\* fields in the order of the required list; otherwise with a malformed email
\* it has nothing but error = 'Invalid email format'; otherwise it has
\* `valid_countries`, the five supported countries.
C11_ValidationBodies ==
  \A r \in RunIds :
    (Answered(r) /\ Response(r).status = 400) =>
      LET body == Response(r).body
          cd   == run[r].candidateData
          absent == SelectSeq(<<"fullName", "email", "role", "department", "country",
                                "salaryUSD", "startDate">>,
                              LAMBDA f : cd[f] = FalsyValue(f))
      IN /\ "error" \in DOMAIN body
         /\ IF absent # << >>
              THEN DOMAIN body = {"error", "missing"} /\ body.missing = absent
            ELSE IF ~ WellFormedEmail(cd.email)
              THEN body = [error |-> "Invalid email format"]
            ELSE /\ DOMAIN body = {"error", "valid_countries"}
                 /\ body.valid_countries = <<"SG", "UK", "US", "IN", "UAE">>

\* C11 witness: a body with every field present and a malformed email was
\* answered 400 with the error text alone.
C11_Witness ==
  \E r \in RunIds :
    /\ Answered(r)
    /\ Response(r).status = 400
    /\ run[r].candidateData.fullName # ""
    /\ run[r].candidateData.email # << >>
    /\ Response(r).body = [error |-> "Invalid email format"]

\* a stage of request r other than the employee insert failed
SomeStageFailed(r) ==
  \/ RejectedTypes(r) # {}
  \/ SaveFailedTypes(r) # {}
  \/ ComplianceInsertFailed(r)
  \/ run[r].thrown # ""

\* C12: every request gets one of three answers: 400 exactly when the body is
\* invalid, and then nothing happened; 500 with error, details, timeline and
\* errors exactly when the orchestrator returned success:false; 200 with
\* success:true and the orchestrator's errors otherwise; so a request whose
\* employee was stored and one of whose other stages failed is answered 200
\* with a non-empty errors list.
C12_ThreeWayOutcome ==
  \A r \in RunIds :
    Answered(r) =>
      /\ Response(r).status \in {200, 400, 500}
      /\ Response(r).status = 400 <=> InvalidOnboardBody(run[r].candidateData)
      /\ Response(r).status = 400 => (run[r].io = << >> /\ db = run[r].dbAtStart)
      /\ Response(r).status = 500 <=> (Returned(r) /\ ~ Result(r).success)
      /\ Response(r).status = 500 =>
           /\ DOMAIN Response(r).body = {"error", "details", "timeline", "errors"}
           /\ Response(r).body.timeline = Result(r).timeline
           /\ Response(r).body.errors = Result(r).errors
      /\ Response(r).status = 200 =>
           /\ Response(r).body.success
           /\ Response(r).body.errors = Result(r).errors
      /\ (EmployeeInsertSucceeded(r) /\ SomeStageFailed(r)) =>
           /\ Response(r).status = 200
           /\ Response(r).body.errors # << >>

\* ------------------------------------------------------------------------
\* The chat route and the conversation turns
\* ------------------------------------------------------------------------
\* the POST in service has an empty employeeId, an empty or blank question or
\* a question of more than 500 characters
InvalidChatPOST(c) ==
  /\ c.method = "POST"
  /\ \/ c.employeeId = 0
     \/ c.question \in {"", "   "}
     \/ c.question = "q x 501"

C13_ValidationState ==
  /\ (chat.pc # "idle" /\ InvalidChatPOST(chat)) =>
       /\ ChatAnswered
       /\ chat.response[1].status = 400
       /\ chat.io = << >> /\ chat.trace = << >> /\ chat.result = << >>
  /\ (chat.pc # "idle" /\ chat.method = "POST" /\ chat.employeeId # 0
        /\ chat.question = "q x 500") =>
       /\ chat.io # << >> \/ chat.pc = "await_employee"
       /\ ChatAnswered => chat.response[1].status # 400

C13_ValidationStep == (InvalidChatPOST(chat) \/ InvalidChatPOST(chat')) => db' = db

\* C13: a POST /api/chat/message with an empty employeeId, an empty or
\* whitespace-only question or a question of more than 500 characters is
\* answered 400, processHRQuestion makes no call and the store does not change
\* while the request is served; a question of exactly 500 characters passes
\* the validation and is processed.
C13_ChatValidation == [] C13_ValidationState /\ [][C13_ValidationStep]_vars

\* C13 witness: a question of 501 characters from an existing employee was
\* answered 400.
C13_Witness ==
  /\ ChatAnswered
  /\ chat.method = "POST"
  /\ chat.employeeId = 1
  /\ chat.question = "q x 501"
  /\ chat.response[1].status = 400

\* the similarity search of the POST in service has returned
SearchDone ==
  /\ chat.method = "POST"
  /\ chat.pc \in {"await_completion", "await_save", "returned", "done"}
  /\ Len(ChatCalls("rpc match_policies")) = 1

TurnsOf(employeeId) == SelectSeq(db.chat_messages, LAMBDA m : m.employee_id = employeeId)

\* C15: the conversation_id of a successful POST /api/chat/message is the id
\* of a turn in the history that a GET for the same employee returns next
\* (default limit).
C15_ConversationIdInHistory ==
  (ChatAnswered /\ chat.method = "POST" /\ chat.response[1].status = 200) =>
    /\ chat.response[1].body.conversation_id # << >>
    /\ \E turn \in Range(getConversationHistory(db.chat_messages, chat.employeeId,
                                                DefaultLimit)) :
         /\ turn.id = chat.response[1].body.conversation_id[1]
         /\ turn.message = chat.question

\* a GET of the history has been answered with the turns
HistoryAnswered == ChatAnswered /\ chat.method = "GET" /\ chat.response[1].status = 200

\* C16: a history fetch returns exactly the min(limit, n) most recently
\* created turns of the employee, n the number of the employee's turns,
\* oldest first, and no turn of another employee; without a limit parameter
\* the limit is 10.
C16_HistoryIsMostRecent ==
  HistoryAnswered =>
    LET convs == chat.response[1].body.conversations
        mine  == TurnsOf(chat.employeeId)
        n     == Len(mine)
        limit == IF chat.limitParam = "" THEN 10
                 ELSE IF chat.limitParam = "1" THEN 1 ELSE 2
        shown == { convs[i].id : i \in 1..Len(convs) }
    IN /\ Len(convs) = (IF limit < n THEN limit ELSE n)
       /\ chat.response[1].body.count = Len(convs)
       /\ \A i \in 1..Len(convs) :
            \E k \in 1..n : /\ mine[k].id = convs[i].id
                            /\ mine[k].message = convs[i].question
                            /\ mine[k].created_at = convs[i].timestamp
       /\ \A i, k \in 1..Len(convs) : i < k => convs[i].timestamp < convs[k].timestamp
       /\ \A k \in 1..n : mine[k].id \notin shown =>
            \A i \in 1..Len(convs) : mine[k].created_at < convs[i].timestamp

\* C16 witness: a fetch without a limit parameter for an employee with more
\* than ten turns, one of them new, returned ten; another employee has turns.
C16_Witness ==
  /\ HistoryAnswered
  /\ chat.limitParam = ""
  /\ Len(TurnsOf(chat.employeeId)) > 11
  /\ Len(TurnsOf(chat.employeeId)) < Len(db.chat_messages)
  /\ Len(chat.response[1].body.conversations) = 10

\* the feedback of the PUT in service has been stored
FeedbackAnswered == ChatAnswered /\ chat.method = "PUT" /\ chat.response[1].status = 200

C17_FeedbackState ==
  /\ FeedbackAnswered =>
       \A i \in 1..Len(db.chat_messages) :
         db.chat_messages[i].id = chat.messageId =>
           /\ db.chat_messages[i].helpful = chat.helpful
           /\ db.chat_messages[i].feedback_comment = chat.comment
  /\ HistoryAnswered =>
       \A i \in 1..Len(chat.response[1].body.conversations) :
         \E k \in 1..Len(db.chat_messages) :
           /\ db.chat_messages[k].id = chat.response[1].body.conversations[i].id
           /\ db.chat_messages[k].helpful = chat.response[1].body.conversations[i].helpful

C17_FeedbackStep ==
  /\ Len(db'.chat_messages) >= Len(db.chat_messages)
  /\ \A i \in 1..Len(db.chat_messages) :
       LET old == db.chat_messages[i]
           new == db'.chat_messages[i]
       IN /\ [new EXCEPT !.helpful = old.helpful,
                         !.feedback_comment = old.feedback_comment] = old
          /\ (new.helpful # old.helpful \/ new.feedback_comment # old.feedback_comment) =>
               /\ chat.pc = "await_feedback"
               /\ chat.messageId = old.id
               /\ chat'.pc = "done" /\ chat'.response[1].status = 200

\* C17: after a PUT /api/chat/message that is answered 200 the turn it names
\* holds the helpful and the comment of that call, whatever it held before
\* (the last call wins); a history fetch shows the stored helpful of every turn
\* it lists; and no step changes any other field of a stored turn, or the
\* feedback of a turn other than the one a PUT names.
C17_FeedbackLastWriteWins == [] C17_FeedbackState /\ [][C17_FeedbackStep]_vars

\* C17 witness: the history shows helpful = true on a turn that a POST
\* created and a PUT gave feedback on.
C17_Witness ==
  /\ HistoryAnswered
  /\ \E i \in 1..Len(chat.response[1].body.conversations) :
       /\ chat.response[1].body.conversations[i].id > Len(TurnsDb.chat_messages)
       /\ chat.response[1].body.conversations[i].helpful = "true"

\* C18: every processHRQuestion call that returns success:true has added
\* exactly one chat_messages row with an id no earlier row has, so that
\* repeated questions leave one turn each, and while a question is processed
\* no stored turn is changed or removed.
C18_OneNewTurnPerSuccess ==
  [][ /\ (chat.pc = "await_save" /\ chat'.pc = "returned" /\ chat'.result[1].success) =>
           /\ Len(db'.chat_messages) = Len(db.chat_messages) + 1
           /\ \A i \in 1..Len(db.chat_messages) :
                db.chat_messages[i].id # db'.chat_messages[Len(db'.chat_messages)].id
           /\ db'.chat_messages[Len(db'.chat_messages)].message = chat.question
      /\ ~ (chat.pc = "await_save" /\ chat'.pc = "returned") =>
           (chat.method = "POST" => db'.chat_messages = db.chat_messages)
      /\ chat.method = "POST" =>
           /\ Len(db'.chat_messages) >= Len(db.chat_messages)
           /\ \A i \in 1..Len(db.chat_messages) : db'.chat_messages[i] = db.chat_messages[i]
    ]_vars

\* ------------------------------------------------------------------------
\* The dashboard: GET /api/stats
\* ------------------------------------------------------------------------
\* hours saved per employee onboarded
HoursPerEmployee == 4

\* select('*', { count: 'exact', head: true }): the count, or null with an error
CountOf(table, ok) == IF ok THEN << Len(db[table]) >> ELSE << >>

\* count || 0, and null * 4 = 0
OrZero(count) == IF count = << >> THEN 0 ELSE count[1]

\* The body of the catch of the route
StatsFailure(msg) ==
  [ status |-> 500,
    body   |-> [ success |-> FALSE,
                 error   |-> msg,
                 stats   |-> [ total_employees  |-> 0,
                               total_contracts  |-> 0,
                               total_chats      |-> 0,
                               time_saved_hours |-> 0 ] ] ]

\* GET: createClient, which throws without a store URL or key, then the
\* count of the employees is issued.
StatsGET ==
  /\ stats.pc = "idle"
  /\ \E configured \in BOOLEAN :
       stats' = IF configured
                  THEN [IdleStats EXCEPT !.pc = "count_employees"]
                  ELSE [IdleStats EXCEPT !.configured = FALSE,
                                         !.pc = "done",
                                         !.response = << StatsFailure("supabaseUrl is required.") >>]
  /\ UNCHANGED <<db, run, chat, today, job>>

\* The count of the employees returns; the count of the contracts is issued.
StatsEmployeesCounted(ok) ==
  /\ stats.pc = "count_employees"
  /\ stats' = [stats EXCEPT !.pc = "count_contracts",
                            !.employeeCount = CountOf("employees", ok),
                            !.io = Append(@, [table |-> "employees", ok |-> ok])]
  /\ UNCHANGED <<db, run, chat, today, job>>

\* The count of the contracts returns; the count of the chat messages is issued.
StatsContractsCounted(ok) ==
  /\ stats.pc = "count_contracts"
  /\ stats' = [stats EXCEPT !.pc = "count_chats",
                            !.contractCount = CountOf("generated_contracts", ok),
                            !.io = Append(@, [table |-> "generated_contracts", ok |-> ok])]
  /\ UNCHANGED <<db, run, chat, today, job>>

\* Mutant of StatsChatsCounted: the time saved is the number of employees.
StatsChatsCounted_NoTimesFour(ok) ==
  /\ stats.pc = "count_chats"
  /\ LET chatCount == CountOf("chat_messages", ok)
         timeSavedHours == OrZero(stats.employeeCount)
     IN stats' = [stats EXCEPT
          !.pc = "done",
          !.chatCount = chatCount,
          !.io = Append(@, [table |-> "chat_messages", ok |-> ok]),
          !.response =
            << [ status |-> 200,
                 body   |-> [ success |-> TRUE,
                              stats   |-> [ total_employees  |-> OrZero(stats.employeeCount),
                                            total_contracts  |-> OrZero(stats.contractCount),
                                            total_chats      |-> OrZero(chatCount),
                                            time_saved_hours |-> timeSavedHours ] ] ] >>]
  /\ UNCHANGED <<db, run, chat, today, job>>

\* The count of the chat messages returns; the route answers.
StatsChatsCounted(ok) ==
  /\ stats.pc = "count_chats"
  /\ LET chatCount == CountOf("chat_messages", ok)
         \* Math.round(employeeCount * 4)
         timeSavedHours == OrZero(stats.employeeCount) * HoursPerEmployee
     IN stats' = [stats EXCEPT
          !.pc = "done",
          !.chatCount = chatCount,
          !.io = Append(@, [table |-> "chat_messages", ok |-> ok]),
          !.response =
            << [ status |-> 200,
                 body   |-> [ success |-> TRUE,
                              stats   |-> [ total_employees  |-> OrZero(stats.employeeCount),
                                            total_contracts  |-> OrZero(stats.contractCount),
                                            total_chats      |-> OrZero(chatCount),
                                            time_saved_hours |-> timeSavedHours ] ] ] >>]
  /\ UNCHANGED <<db, run, chat, today, job>>

\* SpecStats: the dashboard is fetched once while one new hire with a valid
\* body is onboarded, before, between or after the steps of the onboarding.
InitStats ==
  /\ db \in {SeedDb, ChatDb}
  /\ run = [r \in RunIds |-> IdleRun]
  /\ chat = IdleChat
  /\ today = 0
  /\ stats = IdleStats
  /\ job = IdleJob

StatsOnboardPOST ==
  /\ OnboardPOST(1)
  /\ run'[1].candidateData = BaseBody
  /\ ~ run'[1].options.sendEmails
  /\ run'[1].tz = "UTC"

NextStats ==
  \/ StatsGET
  \/ \E ok \in BOOLEAN : StatsEmployeesCounted(ok)
  \/ \E ok \in BOOLEAN : StatsContractsCounted(ok)
  \/ \E ok \in BOOLEAN : StatsChatsCounted(ok)
  \/ StatsOnboardPOST
  \/ \E i \in 1..3, ok \in BOOLEAN : ContractSettles(1, i, ok)
  \/ ContractsJoined(1)
  \/ \E ok \in BOOLEAN : EmployeeInsertReturns(1, ok)
  \/ \E ok \in BOOLEAN : ContractSaveReturns(1, ok)
  \/ ComplianceDerived(1)
  \/ \E ok \in BOOLEAN : ComplianceInsertReturns(1, ok)
  \/ WelcomeEmailSent(1)
  \/ CalendarCreated(1)
  \/ AccessProvisioned(1)
  \/ \E ok \in BOOLEAN : AuditInsertReturns(1, ok)
  \/ \E ok \in BOOLEAN : CatchAuditInsertReturns(1, ok)
  \/ OnboardResponds(1)

SpecStats == InitStats /\ [][NextStats]_vars

\* the dashboard request has been answered
StatsAnswered == stats.pc = "done" /\ Len(stats.response) = 1

AllCountersZero(st) ==
  /\ st.total_employees = 0 /\ st.total_contracts = 0
  /\ st.total_chats = 0 /\ st.time_saved_hours = 0

StatsInternalFailure ==
  \/ ~ stats.configured
  \/ \E i \in 1..Len(stats.io) : ~ stats.io[i].ok

\* C19 (as claimed): GET /api/stats always answers 200; on an internal
\* failure (a store error or an exception) all four counters are zero; without
\* one, time_saved_hours is total_employees x 4.
C19_StatsAlways200 ==
  StatsAnswered =>
    /\ stats.response[1].status = 200
    /\ StatsInternalFailure => AllCountersZero(stats.response[1].body.stats)
    /\ ~ StatsInternalFailure =>
         stats.response[1].body.stats.time_saved_hours
           = stats.response[1].body.stats.total_employees * 4

\* the i-th count of the dashboard request returned an error
CountFailed(i) == ~ stats.io[i].ok

\* C19 (amended): GET /api/stats answers 200 unless an exception is thrown. A
\* store error on a count makes that counter zero and leaves the others as
\* counted; time_saved_hours is total_employees x 4 in every 200; with no
\* onboarding in between and no store error the counters are the sizes of the
\* three tables. An exception (the store client cannot be constructed) is
\* answered 500 with success:false, the error text and all four counters zero.
C19_StatsOutcomes ==
  StatsAnswered =>
    LET resp == stats.response[1]
        st   == resp.body.stats
    IN IF stats.configured
         THEN /\ resp.status = 200
              /\ resp.body.success
              /\ Len(stats.io) = 3
              /\ CountFailed(1) => st.total_employees = 0
              /\ CountFailed(2) => st.total_contracts = 0
              /\ CountFailed(3) => st.total_chats = 0
              /\ st.time_saved_hours = st.total_employees * 4
              /\ run[1].pc = "idle" =>
                   /\ ~ CountFailed(1) => st.total_employees = Len(db.employees)
                   /\ ~ CountFailed(2) => st.total_contracts = Len(db.generated_contracts)
                   /\ ~ CountFailed(3) => st.total_chats = Len(db.chat_messages)
         ELSE /\ resp.status = 500
              /\ ~ resp.body.success
              /\ resp.body.error # ""
              /\ AllCountersZero(st)
              /\ stats.io = << >>

\* C19 witness: the count of the employees failed and the answer is 200 with
\* the contracts that an onboarding stored.
C19_Witness ==
  /\ StatsAnswered
  /\ Len(stats.io) = 3
  /\ CountFailed(1) /\ ~ CountFailed(2)
  /\ stats.response[1].status = 200
  /\ stats.response[1].body.stats.total_employees = 0
  /\ stats.response[1].body.stats.total_contracts > 0

\* ------------------------------------------------------------------------
\* The batch embedding job: generateAllEmbeddings of generate-embeddings.js
\* ------------------------------------------------------------------------
\* sleep(200) between two policies, sleep(60000) after a rate-limit error
RequestDelayMs == 200
RateLimitBackoffMs == 60000

\* The messages of the errors that openai.embeddings.create rejects with
EmbeddingErrors == {"429 Rate limit reached for text-embedding-3-small", "Connection error."}

\* error.message.includes('rate limit') || error.message.includes('429')
IsRateLimited(message) == message = "429 Rate limit reached for text-embedding-3-small"

\* The store of the job: the four policies, some of them without embedding
JobDb(missing) ==
  [EmptyDb EXCEPT !.policies =
     [k \in 1..Len(SeedPolicies) |->
        IF k \in missing THEN [SeedPolicies[k] EXCEPT !.embedding = << >>]
        ELSE SeedPolicies[k]]]

\* The ids of the test query of the job and of a log entry that names no policy
TestQuery == 0

EmbedEvent(policy, outcome) == [op |-> "embeddings.create", policy |-> policy, outcome |-> outcome]
SleepEvent(ms) == [op |-> "sleep", ms |-> ms]
JobStoreEvent(op, ok) == [op |-> op, ok |-> ok]

\* The end of an iteration of the loop: i++ and the next embedding call, or
\* after the last policy the summary and the verification select.
NextPolicy(st) ==
  IF st.i < Len(st.policies)
    THEN [st EXCEPT !.i = @ + 1, !.pc = "await_embedding", !.embedding = << >>]
    ELSE [st EXCEPT !.pc = "await_verify", !.embedding = << >>]

\* The job starts: the select of the policies without embedding is issued.
JobStarts ==
  /\ job.pc = "idle"
  /\ job' = [job EXCEPT !.pc = "await_fetch"]
  /\ UNCHANGED <<db, run, chat, today, stats>>

\* STEP 1: the select returns.  An error is fatal; with no policy to embed the
\* job counts the policies and returns; otherwise the loop starts.
JobFetchReturns(ok) ==
  /\ job.pc = "await_fetch"
  /\ LET policies == SelectSeq(db.policies, LAMBDA pol : pol.embedding = << >>)
         st == [job EXCEPT !.log = Append(@, JobStoreEvent("select policies", ok))]
     IN job' =
          IF ~ ok THEN [st EXCEPT !.pc = "exited"]
          ELSE IF policies = << >> THEN [st EXCEPT !.pc = "await_count"]
          ELSE [st EXCEPT !.pc = "await_embedding", !.policies = policies, !.i = 1]
  /\ UNCHANGED <<db, run, chat, today, stats>>

\* The select of all policies for the statistics returns; the job returns.
JobCountReturns(ok) ==
  /\ job.pc = "await_count"
  /\ job' = [job EXCEPT !.pc = "done",
                        !.log = Append(@, JobStoreEvent("select all policies", ok))]
  /\ UNCHANGED <<db, run, chat, today, stats>>

\* Mutant of JobEmbeddingReturns: no backoff after a rate-limit error.
JobEmbeddingReturns_NoBackoff(outcome) ==
  /\ job.pc = "await_embedding"
  /\ LET policy == job.policies[job.i]
         st == [job EXCEPT !.log = Append(@, EmbedEvent(policy.id, outcome))]
     IN job' =
          IF outcome = "ok"
            THEN [st EXCEPT !.pc = "await_update", !.embedding = << policy.id >>]
            ELSE NextPolicy([st EXCEPT !.errorCount = @ + 1])
  /\ UNCHANGED <<db, run, chat, today, stats>>

\* STEP 2, the embedding call of policy i returns or rejects.  A rejection
\* reaches the catch of the iteration: the error is counted and, when it is a
\* rate-limit error, the job sleeps 60 seconds; then the loop goes on.
JobEmbeddingReturns(outcome) ==
  /\ job.pc = "await_embedding"
  /\ LET policy == job.policies[job.i]
         st == [job EXCEPT !.log = Append(@, EmbedEvent(policy.id, outcome))]
     IN job' =
          IF outcome = "ok"
            THEN [st EXCEPT !.pc = "await_update", !.embedding = << policy.id >>]
          ELSE IF IsRateLimited(outcome)
            THEN [st EXCEPT !.errorCount = @ + 1,
                            !.pc = "sleeping",
                            !.log = Append(@, SleepEvent(RateLimitBackoffMs))]
          ELSE NextPolicy([st EXCEPT !.errorCount = @ + 1])
  /\ UNCHANGED <<db, run, chat, today, stats>>

\* The update of the policy's embedding returns.  An error reaches the catch
\* of the iteration (its message is not a rate-limit message); otherwise the
\* success is counted and, unless this was the last policy, the job sleeps
\* 200 ms.
JobUpdateReturns(ok) ==
  /\ job.pc = "await_update"
  /\ LET policy == job.policies[job.i]
         st == [job EXCEPT !.log = Append(@, JobStoreEvent("update policies", ok))]
     IN /\ db' = IF ok
                   THEN [db EXCEPT !.policies =
                           MapSeq(@, LAMBDA pol :
                             IF pol.id = policy.id
                               THEN [pol EXCEPT !.embedding = job.embedding] ELSE pol)]
                   ELSE db
        /\ job' =
             IF ~ ok THEN NextPolicy([st EXCEPT !.errorCount = @ + 1])
             ELSE IF job.i < Len(job.policies)
               THEN [st EXCEPT !.successCount = @ + 1,
                               !.pc = "sleeping",
                               !.log = Append(@, SleepEvent(RequestDelayMs))]
             ELSE NextPolicy([st EXCEPT !.successCount = @ + 1])
  /\ UNCHANGED <<run, chat, today, stats>>

\* A sleep ends; the loop goes on.
JobSleepEnds ==
  /\ job.pc = "sleeping"
  /\ job' = NextPolicy(job)
  /\ UNCHANGED <<db, run, chat, today, stats>>

\* VERIFICATION: the select of three policies with embedding returns; the
\* embedding call of the test query is issued.
JobVerifyReturns(ok) ==
  /\ job.pc = "await_verify"
  /\ job' = [job EXCEPT !.pc = "await_test_embedding",
                        !.log = Append(@, JobStoreEvent("select embedded policies", ok))]
  /\ UNCHANGED <<db, run, chat, today, stats>>

\* TEST SEMANTIC SEARCH: the embedding call of the test query returns or
\* rejects; a rejection is logged and the job returns.
JobTestEmbeddingReturns(outcome) ==
  /\ job.pc = "await_test_embedding"
  /\ job' = [job EXCEPT !.pc = IF outcome = "ok" THEN "await_test_search" ELSE "done",
                        !.log = Append(@, EmbedEvent(TestQuery, outcome))]
  /\ UNCHANGED <<db, run, chat, today, stats>>

\* The match_policies call of the test returns; the job returns.
JobTestSearchReturns(ok) ==
  /\ job.pc = "await_test_search"
  /\ job' = [job EXCEPT !.pc = "done",
                        !.log = Append(@, JobStoreEvent("rpc match_policies", ok))]
  /\ UNCHANGED <<db, run, chat, today, stats>>

\* SpecJob: one run of the job against a store where any of the four
\* policies may lack its embedding.
InitJob ==
  /\ \E missing \in SUBSET (1..Len(SeedPolicies)) : db = JobDb(missing)
  /\ run = [r \in RunIds |-> IdleRun]
  /\ chat = IdleChat
  /\ today = 0
  /\ stats = IdleStats
  /\ job = IdleJob

NextJob ==
  \/ JobStarts
  \/ \E ok \in BOOLEAN : JobFetchReturns(ok)
  \/ \E ok \in BOOLEAN : JobCountReturns(ok)
  \/ \E outcome \in {"ok"} \cup EmbeddingErrors : JobEmbeddingReturns(outcome)
  \/ \E ok \in BOOLEAN : JobUpdateReturns(ok)
  \/ JobSleepEnds
  \/ \E ok \in BOOLEAN : JobVerifyReturns(ok)
  \/ \E outcome \in {"ok"} \cup EmbeddingErrors : JobTestEmbeddingReturns(outcome)
  \/ \E ok \in BOOLEAN : JobTestSearchReturns(ok)

SpecJob == InitJob /\ [][NextJob]_vars

\* the k-th entry of the job's log is the embedding call of a policy that was
\* rejected with a rate-limit error
RateLimitedAt(k) ==
  /\ job.log[k].op = "embeddings.create"
  /\ job.log[k].policy # TestQuery
  /\ IsRateLimited(job.log[k].outcome)

\* the job has gone on after the k-th entry of its log and the sleep after it
WentOnAfter(k) == Len(job.log) >= k + 2 \/ job.pc \in {"done", "exited"}

\* C20 (as claimed): after the embedding call of a policy is rejected with a
\* rate-limit error the job sleeps 60 seconds and then calls the embedding of
\* the same policy again, once.
C20_RetriesAfterBackoff ==
  \A k \in 1..Len(job.log) :
    RateLimitedAt(k) =>
      /\ Len(job.log) >= k + 1 => job.log[k + 1] = SleepEvent(60000)
      /\ WentOnAfter(k) =>
           /\ Len(job.log) >= k + 2
           /\ job.log[k + 2].op = "embeddings.create"
           /\ job.log[k + 2].policy = job.log[k].policy

\* the embedding calls of the job's log for a policy
EmbedCallsOf(policy) ==
  SelectSeq(job.log, LAMBDA e : e.op = "embeddings.create" /\ e.policy = policy)

\* C20 (amended): after the embedding call of a policy is rejected with a
\* rate-limit error the job sleeps 60 seconds and then goes on with the next
\* policy, or with the verification after the last one: it does not call the
\* embedding of that policy again (every policy has at most one embedding call
\* in a run), the failure is counted, and the policy is left without
\* embedding.
C20_BackoffThenNext ==
  /\ \A k \in 1..Len(job.log) :
       RateLimitedAt(k) =>
         /\ Len(job.log) >= k + 1
         /\ job.log[k + 1] = SleepEvent(60000)
         /\ Len(job.log) >= k + 2 =>
              \/ /\ job.log[k + 2].op = "embeddings.create"
                 /\ job.log[k + 2].policy # job.log[k].policy
                 /\ job.log[k + 2].policy # TestQuery
              \/ job.log[k + 2].op = "select embedded policies"
         /\ job.errorCount >= 1
         /\ \A i \in 1..Len(db.policies) :
              db.policies[i].id = job.log[k].policy => db.policies[i].embedding = << >>
  /\ \A i \in 1..Len(job.policies) : Len(EmbedCallsOf(job.policies[i].id)) <= 1
  /\ job.successCount + job.errorCount <= Len(job.policies)

\* C20 witness: the job is done; the embedding of one policy was rate
\* limited, the job slept 60 seconds and then embedded the next policy.
C20_Witness ==
  /\ job.pc = "done"
  /\ \E k \in 1..Len(job.log) :
       /\ RateLimitedAt(k)
       /\ Len(job.log) >= k + 2
       /\ job.log[k + 1] = SleepEvent(60000)
       /\ job.log[k + 2].op = "embeddings.create"
       /\ job.log[k + 2].policy # job.log[k].policy
       /\ job.log[k + 2].outcome = "ok"

\* ------------------------------------------------------------------------
\* Stages 1 and 3 to 8 of the onboarding orchestrator
\* ------------------------------------------------------------------------
\* Request r has started the orchestrator (its body passed the validation)
Started(r) == run[r].promises # << >>

\* Every generateContract call of request r fulfilled
AllGenerated(r) ==
  Started(r) /\ \A i \in 1..Len(run[r].promises) : run[r].promises[i] = "fulfilled"

\* The contract types a hire is entitled to
ExpectedTypes(candidateData) ==
  IF candidateData.equityShares > 0
    THEN <<"employment", "nda", "equity">>
    ELSE <<"employment", "nda">>

\* Stage 1 of request r is over
Joined(r) == Started(r) /\ run[r].pc # "await_contracts"

\* C21: the orchestrator requests one generation per entitled type and no
\* other (employment and nda, and equity exactly when equityShares > 0); when
\* every generation succeeded, stage 1 produces exactly these 2 or 3
\* contracts, in this order, and so does the summary of a successful call.
C21_ContractCount ==
  \A r \in RunIds :
    /\ Started(r) =>
         /\ Len(run[r].promises) = IF run[r].candidateData.equityShares > 0 THEN 3 ELSE 2
         /\ \A e \in Range(ErrorsOf(run[r].errors, "contract_generation")) :
              e.type \in Range(ExpectedTypes(run[r].candidateData))
    /\ (AllGenerated(r) /\ Joined(r)) =>
         /\ MapSeq(run[r].successfulContracts, LAMBDA c : c.contractType)
              = ExpectedTypes(run[r].candidateData)
         /\ run[r].timeline[1].contracts_count
              = IF run[r].candidateData.equityShares > 0 THEN 3 ELSE 2
    /\ (AllGenerated(r) /\ Returned(r) /\ Result(r).success) =>
         MapSeq(Result(r).deliverables.contracts, LAMBDA c : c.type)
           = ExpectedTypes(run[r].candidateData)
    /\ \A row \in Range(RowsAdded(r, "generated_contracts")) :
         row.contract_type \in Range(ExpectedTypes(run[r].candidateData))

\* C21 witness: a hire without equity whose generations all succeeded got a
\* summary with two contracts.
C21_Witness ==
  \E r \in RunIds :
    /\ AllGenerated(r) /\ Returned(r) /\ Result(r).success
    /\ run[r].candidateData.equityShares = 0
    /\ Len(Result(r).deliverables.contracts) = 2
    /\ Len(RowsAdded(r, "generated_contracts")) = 2

\* Stage 3 of request r is over
Stage3Done(r) == \E e \in Range(run[r].timeline) : e.step = "contracts_saved"

\* The types of the generated contracts whose save was accepted, in order
SavedTypes(r) ==
  LET calls == StoreCalls(r, "generated_contracts")
      marked == [k \in 1..Len(calls) |->
                   IF calls[k].ok THEN run[r].successfulContracts[k].contractType ELSE ""]
  IN SelectSeq(marked, LAMBDA t : t # "")

\* C22: stage 3 issues one insert per successfully generated contract, in
\* order, and none for a failed generation; every row it stores has status
\* pending_approval, the type of its contract and the id of the employee
\* stage 2 of the same request created; a refused save leaves exactly one
\* contract_save entry for that type in errors and the remaining contracts
\* are still saved.
C22_SavesEachGenerated ==
  \A r \in RunIds :
    LET calls == StoreCalls(r, "generated_contracts")
        rows  == RowsAdded(r, "generated_contracts")
    IN /\ Len(calls) <= Len(run[r].successfulContracts)
       /\ Stage3Done(r) => Len(calls) = Len(FulfilledTypes(r))
       /\ MapSeq(rows, LAMBDA row : row.contract_type) = SavedTypes(r)
       /\ \A row \in Range(rows) :
            /\ row.status = "pending_approval"
            /\ Len(RowsAdded(r, "employees")) = 1
            /\ row.employee_id = RowsAdded(r, "employees")[1].id
            /\ row.contract_type \in Range(FulfilledTypes(r))
       /\ \A t \in Range(contractTypes(run[r].candidateData)) :
            Len(SelectSeq(ErrorsOf(run[r].errors, "contract_save"), LAMBDA e : e.type = t))
              = IF t \in SaveFailedTypes(r) THEN 1 ELSE 0
       /\ Stage3Done(r) =>
            /\ run[r].timeline[3].saved_count = Len(rows)
            /\ Len(rows) + Cardinality(SaveFailedTypes(r)) = Len(FulfilledTypes(r))

\* C22 witness: of three generated contracts the save of the first was
\* refused and the two others were stored.
C22_Witness ==
  \E r \in RunIds :
    /\ Stage3Done(r)
    /\ Len(FulfilledTypes(r)) = 3
    /\ SaveFailedTypes(r) = {"employment"}
    /\ SavedTypes(r) = <<"nda", "equity">>
    /\ Len(RowsAdded(r, "generated_contracts")) = 2

\* C24 (as claimed): the welcome email of stage 5 attaches as many contracts as
\* stage 1 of the same request generated successfully, also when some
\* generations failed.
C24_EmailAttachesGenerated ==
  \A r \in RunIds :
    run[r].emailResult # << >> =>
      run[r].emailResult[1].contracts_attached = Len(FulfilledTypes(r))

\* ------------------------------------------------------------------------
\* SpecCall: executeInvisibleOnboarding called directly (as the test script
\* does), with any of its option flags passed or left out
\* ------------------------------------------------------------------------
OptionFlags == {"sendEmails", "createCalendarEvents", "provisionAccess"}

\* Each flag is left out, true or false
OptionArgs == [OptionFlags -> {<< >>, << TRUE >>, << FALSE >>}]

\* The candidates of the direct calls
Candidates ==
  { [BaseBody EXCEPT !.country = c, !.startDate = d] :
      c \in {"SG", "US"}, d \in {"2025-03-01", "2025-12-30", "infinity"} }

\* The head of executeInvisibleOnboarding up to its first await: the options
\* are destructured and the generateContract calls of stage 1 are started.
StartOnboarding(r, candidate, optionsArg) ==
  /\ run[r].pc = "idle"
  /\ UNCHANGED <<db, chat, today, stats, job>>
  /\ run' = [run EXCEPT ![r] =
       [@ EXCEPT !.candidateData = candidate,
                 !.optionsArg = optionsArg,
                 !.options = OptionsOf(optionsArg),
                 !.dbAtStart = db,
                 !.pc = "await_contracts",
                 !.promises = [i \in 1..Len(contractTypes(candidate)) |-> "pending"]]]

\* executeInvisibleOnboarding is called
ExecuteInvisibleOnboarding(r) ==
  \E candidate \in Candidates, optionsArg \in OptionArgs :
    StartOnboarding(r, candidate, optionsArg)

NextCall ==
  \/ ExecuteInvisibleOnboarding(1)
  \/ \E i \in 1..3, ok \in BOOLEAN : ContractSettles(1, i, ok)
  \/ ContractsJoined(1)
  \/ \E ok \in BOOLEAN : EmployeeInsertReturns(1, ok)
  \/ \E ok \in BOOLEAN : ContractSaveReturns(1, ok)
  \/ ComplianceDerived(1)
  \/ \E ok \in BOOLEAN : ComplianceInsertReturns(1, ok)
  \/ WelcomeEmailSent(1)
  \/ CalendarCreated(1)
  \/ AccessProvisioned(1)
  \/ \E ok \in BOOLEAN : AuditInsertReturns(1, ok)
  \/ \E ok \in BOOLEAN : CatchAuditInsertReturns(1, ok)

SpecCall == Init /\ [][NextCall]_vars

\* The timeline entry of a stage of request r, << >> if it has none
TimelineEntry(r, step) == SelectSeq(run[r].timeline, LAMBDA e : e.step = step)

\* Stage 5 of request r has started or is about to
InStages5To7(r) == run[r].pc \in {"send_email", "create_calendar", "provision_access"}

SystemsProvisioned == <<"Email", "Slack", "GitHub", "HR Portal", "Jira">>

\* The state part of C25
C25_SimulatedState ==
  \A r \in RunIds :
    LET given(flag) == run[r].optionsArg[flag]
        on(flag)    == given(flag) = << TRUE >>
        email    == TimelineEntry(r, "welcome_email_sent")
        calendar == TimelineEntry(r, "calendar_events_created")
        access   == TimelineEntry(r, "system_access_provisioned")
        start    == ParsedDates[run[r].employee[1].start_date]
    IN /\ email # << >> =>
            /\ email[1].simulated = ~ on("sendEmails")
            /\ given("sendEmails") = << >> => email[1].simulated
            /\ run[r].emailResult[1].simulated = email[1].simulated
       /\ calendar # << >> =>
            /\ calendar[1].simulated = ~ on("createCalendarEvents")
            /\ given("createCalendarEvents") = << >> => calendar[1].simulated
            /\ calendar[1].events_count = 5
            /\ MapSeq(run[r].calendarEvents, LAMBDA e : e.date)
                 = << start, start, start, AddDays(start, 1), AddDays(start, 4) >>
       /\ access # << >> =>
            /\ access[1].simulated = ~ on("provisionAccess")
            /\ given("provisionAccess") = << >> => access[1].simulated
            /\ MapSeq(access[1].provisions, LAMBDA p : p.system) = SystemsProvisioned
            /\ \A p \in Range(access[1].provisions) : p.status = "pending"
            /\ run[r].accessProvisions = access[1].provisions
       /\ \A e \in Range(run[r].errors) :
            e.step \in {"contract_generation", "employee_creation",
                        "contract_save", "compliance_init"}
       /\ (Returned(r) /\ email # << >>) =>
            /\ Result(r).success
            /\ Len(Result(r).deliverables.calendar_events) = 5
            /\ Len(Result(r).deliverables.system_access) = 5

\* The step part of C25: a step of stages 5 to 7 neither throws nor touches
\* errors or the store, and records its stage.
C25_SimulatedStep ==
  \A r \in RunIds :
    InStages5To7(r) =>
      /\ run'[r].pc # "catch"
      /\ run'[r].errors = run[r].errors
      /\ run'[r].pc # run[r].pc => Len(run'[r].timeline) = Len(run[r].timeline) + 1
      /\ db' = db

\* C25: stages 5 to 7 always succeed and add nothing to errors, whichever of
\* sendEmails, createCalendarEvents and provisionAccess are passed; each of
\* the three timeline entries records simulated = NOT flag, and a flag that is
\* not passed counts as off (simulation); the calendar stage gives exactly five
\* events dated start, start, start, start + 1 day and start + 4 days; the
\* access stage gives the fixed list of five systems, all pending.
C25_Stages5To7Succeed == [] C25_SimulatedState /\ [][C25_SimulatedStep]_vars

\* C25 witness: a call with sendEmails left out, createCalendarEvents on and
\* provisionAccess off returned after stages 5 to 7.
C25_Witness ==
  \E r \in RunIds :
    /\ Returned(r) /\ Result(r).success
    /\ run[r].optionsArg = [sendEmails |-> << >>, createCalendarEvents |-> << TRUE >>,
                            provisionAccess |-> << FALSE >>]
    /\ TimelineEntry(r, "welcome_email_sent")[1].simulated
    /\ ~ TimelineEntry(r, "calendar_events_created")[1].simulated
    /\ TimelineEntry(r, "system_access_provisioned")[1].simulated
    /\ Len(run[r].calendarEvents) = 5

\* C30: on the success path the stored audit entry has success = TRUE exactly
\* when errors is empty at the audit write, which is the errors the call
\* returns; so a call with a partial failure stores success=false while it
\* returns success:true; the entry's actions_taken is the returned 7-entry
\* timeline and the entry references the new employee.
C30_AuditSuccessIffNoErrors ==
  \A r \in RunIds :
    (Returned(r) /\ Result(r).success /\ AuditRows(r) # << >>) =>
      LET entry == AuditRows(r)[1]
      IN /\ entry.success = (Result(r).errors = << >>)
         /\ entry.success = (run[r].errors = << >>)
         /\ ( \/ RejectedTypes(r) # {} \/ SaveFailedTypes(r) # {}
              \/ ComplianceInsertFailed(r) ) => ~ entry.success
         /\ entry.actions_taken = Result(r).automation.timeline
         /\ StepsOf(entry.actions_taken) = StageOrder
         /\ entry.employee_id = << Result(r).employee.id >>
         /\ entry.error_message = ""

\* C30 witness: a call whose compliance insert failed returned success:true
\* and stored an audit entry with success=false.
C30_Witness ==
  \E r \in RunIds :
    /\ Returned(r) /\ Result(r).success
    /\ ComplianceInsertFailed(r)
    /\ Len(AuditRows(r)) = 1
    /\ AuditRows(r)[1].success = FALSE
    /\ Len(AuditRows(r)[1].actions_taken) = 7

\* ------------------------------------------------------------------------
\* SpecContext: buildEmployeeContext applied to employee snapshots and
\* retrieved policies, on the same day or on different days
\* ------------------------------------------------------------------------
MaxContextCalls == 2

\* The employee snapshots: one without and one with a last_leave_date
ContextEmployees == {SeedEmployee, SecondEmployee}

\* The policy lists: every result of the similarity search of the model
ContextPolicies ==
  UNION { match_policies(SeedPolicies, e, similarityThreshold, maxPolicies) :
            e \in Embeddings }

\* One call of buildEmployeeContext; chat.io records the calls.
ContextBuilt ==
  /\ chat.pc = "idle"
  /\ Len(chat.io) < MaxContextCalls
  /\ \E employee \in ContextEmployees, policies \in ContextPolicies :
       chat' = [chat EXCEPT !.io =
         Append(@, [ op       |-> "buildEmployeeContext",
                     employee |-> employee,
                     policies |-> policies,
                     now      |-> today,
                     context  |-> buildEmployeeContext(employee, policies, today) ])]
  /\ UNCHANGED <<db, run, today, stats, job>>

NextContext ==
  \/ ContextBuilt
  \/ DayPasses

SpecContext == InitChat /\ [][NextContext]_vars

\* The block lists the policies as retrieved: the placeholder exactly when
\* there is none, otherwise title, category, full content and delimiter of
\* each, numbered in retrieval order.
ListsPoliciesInOrder(call) ==
  /\ call.context.no_policies_placeholder = (Len(call.policies) = 0)
  /\ Len(call.context.policies) = Len(call.policies)
  /\ \A i \in 1..Len(call.policies) :
       /\ call.context.policies[i].index = i
       /\ call.context.policies[i].title = call.policies[i].title
       /\ call.context.policies[i].category = call.policies[i].category
       /\ call.context.policies[i].content = call.policies[i].content
       /\ call.context.policies[i].delimiter = "---"

\* C26 (as claimed): two calls of buildEmployeeContext with the same employee
\* snapshot and the same policies return the same block whenever they are
\* made; the block lists the policies as retrieved.
C26_ContextIsPure ==
  /\ \A i, j \in 1..Len(chat.io) :
       (chat.io[i].employee = chat.io[j].employee /\ chat.io[i].policies = chat.io[j].policies)
         => chat.io[i].context = chat.io[j].context
  /\ \A i \in 1..Len(chat.io) : ListsPoliciesInOrder(chat.io[i])

\* C26 (amended): the block is determined by the employee snapshot, the
\* policies and the current day: calls with the same snapshot and policies on
\* the same day return the same block; for an employee without
\* last_leave_date the day does not matter; for one with a last_leave_date the
\* blocks of two different days differ (in the "Last Leave" line only).  The
\* block lists the policies as retrieved.
C26_ContextDependsOnDay ==
  /\ \A i, j \in 1..Len(chat.io) :
       (chat.io[i].employee = chat.io[j].employee /\ chat.io[i].policies = chat.io[j].policies)
         => /\ chat.io[i].now = chat.io[j].now => chat.io[i].context = chat.io[j].context
            /\ chat.io[i].employee.last_leave_date = << >> =>
                 chat.io[i].context = chat.io[j].context
            /\ (chat.io[i].employee.last_leave_date # << >> /\ chat.io[i].now # chat.io[j].now) =>
                 /\ chat.io[i].context # chat.io[j].context
                 /\ [chat.io[i].context EXCEPT !.last_leave = << >>]
                      = [chat.io[j].context EXCEPT !.last_leave = << >>]
  /\ \A i \in 1..Len(chat.io) : ListsPoliciesInOrder(chat.io[i])

\* C26 witness: the context of the employee with a last leave date was built
\* with the same two or more policies on two different days.
C26_Witness ==
  /\ Len(chat.io) = 2
  /\ chat.io[1].op = "buildEmployeeContext"
  /\ chat.io[1].employee = SecondEmployee /\ chat.io[2].employee = SecondEmployee
  /\ chat.io[1].policies = chat.io[2].policies
  /\ Len(chat.io[1].policies) >= 2
  /\ chat.io[1].now # chat.io[2].now
  /\ chat.io[1].context # chat.io[2].context

\* The employee lookup of the POST in service returned an error or no row
Step1Failed ==
  /\ chat.method = "POST"
  /\ chat.io # << >>
  /\ chat.io[1].op = "select employees"
  /\ \/ ~ chat.io[1].ok
     \/ \A e \in Range(db.employees) : e.id # chat.employeeId

\* The state part of C28
C28_AbortState ==
  Step1Failed =>
    /\ chat.pc \in {"returned", "done"}
    /\ chat.result = << [success |-> FALSE, error |-> "Employee not found", trace |-> << >>] >>
    /\ chat.io = << ChatCall("select employees", chat.io[1].ok) >>
    /\ chat.questionEmbedding = << >>
    /\ chat.relevantPolicies = << >>
    /\ chat.answer = ""

\* The step part of C28: after the failed lookup the request writes nothing.
C28_AbortStep == Step1Failed => db' = db

\* C28: when the employee lookup of processHRQuestion returns an error or no
\* row, the call returns success:false with error 'Employee not found'; the
\* lookup is its only external call (no embedding, no match_policies, no chat
\* completion) and it inserts no chat_messages row.
C28_Step1FailureAborts == [] C28_AbortState /\ [][C28_AbortStep]_vars

\* C28 witness: after a question that was answered and stored, the question
\* of an unknown employee was answered 500 once the lookup returned no row,
\* and the store holds no turn for it.
C28_Witness ==
  /\ chat.pc = "done" /\ Step1Failed
  /\ chat.io[1].ok /\ chat.employeeId = 3
  /\ chat.response[1].status = 500
  /\ chat.served = 1
  /\ Len(db.chat_messages) = 2

\* ------------------------------------------------------------------------
\* SpecCompliance: update_compliance_statuses run once a day on the checklist
\* of an onboarded employee.  today is a day number; day 0 is 2025-01-01.
\* ------------------------------------------------------------------------
MaxComplianceDays == 100

\* The first UPDATE: active items expiring within 30 days become urgent
MarkUrgent(items, current_date) ==
  [i \in 1..Len(items) |->
     IF /\ items[i].expiry_date # << >>
        /\ DayNumber(items[i].expiry_date[1]) <= current_date + 30
        /\ DayNumber(items[i].expiry_date[1]) > current_date
        /\ items[i].status = "active"
       THEN [items[i] EXCEPT !.status = "urgent"] ELSE items[i]]

\* The second UPDATE: active items expiring in 30 to 60 days become
\* expiring_soon
MarkExpiringSoon(items, current_date) ==
  [i \in 1..Len(items) |->
     IF /\ items[i].expiry_date # << >>
        /\ DayNumber(items[i].expiry_date[1]) <= current_date + 60
        /\ DayNumber(items[i].expiry_date[1]) > current_date + 30
        /\ items[i].status = "active"
       THEN [items[i] EXCEPT !.status = "expiring_soon"] ELSE items[i]]

\* The third UPDATE: items past their expiry become overdue
MarkOverdue(items, current_date) ==
  [i \in 1..Len(items) |->
     IF /\ items[i].expiry_date # << >>
        /\ DayNumber(items[i].expiry_date[1]) < current_date
        /\ items[i].status # "overdue"
       THEN [items[i] EXCEPT !.status = "overdue"] ELSE items[i]]

\* update_compliance_statuses(): the three UPDATEs in order
update_compliance_statuses(items, current_date) ==
  MarkOverdue(MarkExpiringSoon(MarkUrgent(items, current_date), current_date),
              current_date)

\* The checklist of an onboarded employee as stage 4 stored it
StoredChecklist(employee) ==
  LET items == generateComplianceItems(employee, "UTC")
  IN [i \in 1..Len(items) |->
        [ id          |-> i,
          employee_id |-> items[i].employee_id,
          item_type   |-> items[i].item_type,
          item_name   |-> items[i].item_name,
          expiry_date |-> items[i].expiry_date,
          status      |-> items[i].status ]]

\* The store after the onboarding of one employee
ComplianceDb(country, startDate) ==
  LET employee == EmployeeRow([BaseBody EXCEPT !.country = country,
                                               !.startDate = startDate], 1)
  IN [EmptyDb EXCEPT !.employees = << employee >>,
                     !.compliance_items = StoredChecklist(employee)]

InitCompliance ==
  /\ db \in { ComplianceDb(c, d) :
                c \in {"SG", "US"}, d \in {"2025-03-01", "2024-02-29", "2025-12-30"} }
  /\ run = [r \in RunIds |-> IdleRun]
  /\ chat = IdleChat
  /\ today = 0
  /\ stats = IdleStats
  /\ job = IdleJob

\* The next day begins and the daily run of update_compliance_statuses is
\* made.
DailyComplianceRun ==
  /\ today < MaxComplianceDays
  /\ today' = today + 1
  /\ db' = [db EXCEPT !.compliance_items = update_compliance_statuses(@, today + 1)]
  /\ UNCHANGED <<run, chat, stats, job>>

NextCompliance == DailyComplianceRun

SpecCompliance == InitCompliance /\ [][NextCompliance]_vars

\* The days from today to the expiry of an item
DaysLeft(item) == DayNumber(item.expiry_date[1]) - today

\* C29 (as claimed): after every daily run each item is in the status of its
\* date window: urgent when it expires after today and within 30 days,
\* expiring_soon when it expires in 30 to 60 days, overdue when it is past
\* its expiry (at exactly 30 days either of the two); so an item marked
\* expiring_soon becomes urgent once it is within 30 days.
C29_StatusFollowsWindow ==
  today > 0 =>
    \A item \in Range(db.compliance_items) :
      item.expiry_date # << >> =>
        /\ (DaysLeft(item) > 0 /\ DaysLeft(item) < 30) => item.status = "urgent"
        /\ DaysLeft(item) = 30 => item.status \in {"urgent", "expiring_soon"}
        /\ (DaysLeft(item) > 30 /\ DaysLeft(item) <= 60) => item.status = "expiring_soon"
        /\ DaysLeft(item) < 0 => item.status = "overdue"

\* ------------------------------------------------------------------------
\* SpecPair: two calls of executeInvisibleOnboarding for two different
\* candidates, interleaved at their awaits
\* ------------------------------------------------------------------------
\* The candidate of each call
PairCandidates ==
  [ r \in RunIds |->
      IF r = 1 THEN BaseBody
      ELSE [ fullName     |-> "Raj Patel",
             email        |-> <<"a", "@", "a", ".", "a", "a">>,
             role         |-> "Product Manager",
             department   |-> "Product",
             country      |-> "US",
             salaryUSD    |-> 150000,
             startDate    |-> "2025-12-30",
             equityShares |-> 0 ] ]

\* The options left out, as the test script calls the orchestrator
NoOptions == [f \in OptionFlags |-> << >>]

PairStarts(r) == StartOnboarding(r, PairCandidates[r], NoOptions)

NextPair ==
  \E r \in RunIds :
    \/ PairStarts(r)
    \/ \E i \in 1..2, ok \in BOOLEAN : ContractSettles(r, i, ok)
    \/ ContractsJoined(r)
    \/ \E ok \in BOOLEAN : EmployeeInsertReturns(r, ok)
    \/ \E ok \in BOOLEAN : ContractSaveReturns(r, ok)
    \/ ComplianceDerived(r)
    \/ \E ok \in BOOLEAN : ComplianceInsertReturns(r, ok)
    \/ WelcomeEmailSent(r)
    \/ CalendarCreated(r)
    \/ AccessProvisioned(r)
    \/ \E ok \in BOOLEAN : AuditInsertReturns(r, ok)
    \/ \E ok \in BOOLEAN : CatchAuditInsertReturns(r, ok)

InitPair ==
  /\ db = SeedDb
  /\ run = [r \in RunIds |-> IdleRun]
  /\ chat = IdleChat
  /\ today = 0
  /\ stats = IdleStats
  /\ job = IdleJob

SpecPair == InitPair /\ [][NextPair]_vars

\* The employee row call r stored, if any
OwnEmployee(r) == RowsAdded(r, "employees")

\* The number of entries of errors with a step
ErrorCount(r, step) == Len(ErrorsOf(run[r].errors, step))

\* The calls that stored a row of the table with this id
WritersOf(table, id) ==
  { r \in RunIds : \E c \in Range(StoreCalls(r, table)) : id \in c.ids }

\* C27: in every interleaving of two calls for two different candidates, each
\* call stores at most one employee, that of its own candidate; every
\* generated_contracts, compliance_items and automation_logs row was written
\* by exactly one call and references the employee that call created (an
\* audit entry of the failure path references none) and carries that call's
\* own timeline; the timeline and the errors of a call hold exactly the
\* entries of its own stages and failures, and they are what it returns.
C27_RunsAreIndependent ==
  /\ \A r \in RunIds :
       /\ Len(OwnEmployee(r)) <= 1
       /\ \A e \in Range(OwnEmployee(r)) :
            /\ e.email = PairCandidates[r].email
            /\ e.full_name = PairCandidates[r].fullName
       /\ \A row \in Range(RowsAdded(r, "generated_contracts")) :
            /\ Len(OwnEmployee(r)) = 1
            /\ row.employee_id = OwnEmployee(r)[1].id
       /\ \A row \in Range(RowsAdded(r, "compliance_items")) :
            /\ Len(OwnEmployee(r)) = 1
            /\ row.employee_id = OwnEmployee(r)[1].id
            /\ row.item_type = "training_certification" =>
                 row.expiry_date
                   = << AddDays(ParsedDates[PairCandidates[r].startDate], 30) >>
       /\ \A row \in Range(RowsAdded(r, "automation_logs")) :
            /\ row.employee_id # << >> =>
                 /\ Len(OwnEmployee(r)) = 1
                 /\ row.employee_id = << OwnEmployee(r)[1].id >>
            /\ row.actions_taken = run[r].timeline
       /\ Len(run[r].timeline) >= 1 =>
            run[r].timeline[1].contracts_count = Len(FulfilledTypes(r))
       /\ Len(run[r].timeline) >= 2 =>
            run[r].timeline[2].employee_id = OwnEmployee(r)[1].id
       /\ Len(run[r].timeline) >= 3 =>
            run[r].timeline[3].saved_count = Len(RowsAdded(r, "generated_contracts"))
       /\ Len(run[r].timeline) >= 4 =>
            run[r].timeline[4].items_count = Len(RowsAdded(r, "compliance_items"))
       /\ Len(run[r].timeline) >= 5 =>
            run[r].timeline[5].recipient = PairCandidates[r].email
       /\ ErrorCount(r, "contract_generation") = Cardinality(RejectedTypes(r))
       /\ ErrorCount(r, "employee_creation") = IF EmployeeInsertFailed(r) THEN 1 ELSE 0
       /\ ErrorCount(r, "contract_save") = Cardinality(SaveFailedTypes(r))
       /\ ErrorCount(r, "compliance_init") = IF ComplianceInsertFailed(r) THEN 1 ELSE 0
       /\ Len(run[r].errors)
            = ErrorCount(r, "contract_generation") + ErrorCount(r, "employee_creation")
              + ErrorCount(r, "contract_save") + ErrorCount(r, "compliance_init")
       /\ Returned(r) =>
            /\ Result(r).errors = run[r].errors
            /\ IF Result(r).success
                 THEN /\ Result(r).automation.timeline = run[r].timeline
                      /\ Result(r).employee.id = OwnEmployee(r)[1].id
                      /\ Result(r).employee.email = PairCandidates[r].email
                 ELSE Result(r).timeline = run[r].timeline
  /\ \A table \in {"generated_contracts", "compliance_items", "automation_logs"} :
       \A row \in Range(db[table]) : Cardinality(WritersOf(table, row.id)) = 1

\* C27 witness: both calls returned success:true after an interleaving in
\* which the second call stored its employee first and the contract saves of
\* the two calls alternated.
C27_Witness ==
  /\ \A r \in RunIds : Returned(r) /\ Result(r).success
  /\ OwnEmployee(2)[1].id < OwnEmployee(1)[1].id
  /\ Len(db.generated_contracts) = 4
  /\ MapSeq(db.generated_contracts, LAMBDA row : row.employee_id)
       = << OwnEmployee(1)[1].id, OwnEmployee(2)[1].id,
            OwnEmployee(1)[1].id, OwnEmployee(2)[1].id >>
  /\ Len(db.automation_logs) = 2

\* The items of a type in a checklist
ItemsOfType(items, type) == SelectSeq(items, LAMBDA i : i.item_type = type)

\* The days from the employee's start date to the expiry of an item
DaysAfterStart(employee, item) ==
  DayNumber(item.expiry_date[1]) - DayNumber(ParsedDates[employee.start_date])

\* C23 (as claimed): the checklist generateComplianceItems derives holds
\* exactly four training_certification items each due 30 days after the start
\* date, one work_permit item due 2 years after the start date exactly when
\* the country is US or UAE, and two equipment_loan items without expiry;
\* every item is active and references the new employee; the list goes into
\* one bulk insert, whose failure only adds a compliance_init entry to errors.
C23_FixedChecklist ==
  \A r \in RunIds :
    run[r].complianceItems # << >> =>
      LET items    == run[r].complianceItems
          employee == run[r].employee[1]
          permits  == ItemsOfType(items, "work_permit")
      IN /\ Len(ItemsOfType(items, "training_certification")) = 4
         /\ \A i \in Range(ItemsOfType(items, "training_certification")) :
              DaysAfterStart(employee, i) = 30
         /\ Len(permits) = IF employee.country \in {"US", "UAE"} THEN 1 ELSE 0
         /\ \A i \in Range(permits) :
              /\ i.expiry_date[1].y = ParsedDates[employee.start_date].y + 2
              /\ DaysAfterStart(employee, i) \in {730, 731}
         /\ Len(ItemsOfType(items, "equipment_loan")) = 2
         /\ \A i \in Range(ItemsOfType(items, "equipment_loan")) : i.expiry_date = << >>
         /\ Len(items) = 6 + Len(permits)
         /\ \A i \in Range(items) :
              /\ i.status = "active"
              /\ i.employee_id = RowsAdded(r, "employees")[1].id
         /\ Len(StoreCalls(r, "compliance_items")) <= 1
         /\ \A c \in Range(StoreCalls(r, "compliance_items")) :
              IF c.ok
                THEN /\ Len(RowsAdded(r, "compliance_items")) = Len(items)
                     /\ ErrorsOf(run[r].errors, "compliance_init") = << >>
                ELSE /\ RowsAdded(r, "compliance_items") = << >>
                     /\ Len(ErrorsOf(run[r].errors, "compliance_init")) = 1
                     /\ run[r].thrown = ""
                     /\ Returned(r) => Result(r).success

=============================================================================
